---- MODULE Spec2Model ----
(***************************************************************************)
(* Model of the CSV ingestion-and-profiling engine (python-api):           *)
(*   services/extractor.py  CSVExtractor   (reader, type inference)        *)
(*   services/analyzer.py   DataAnalyzer   (domain, profiling, advice)     *)
(*   services/quality.py    QualityChecker (seven dimensions, score)       *)
(*   main.py                /extract handler                               *)
(*                                                                         *)
(* Text is modelled by TLA+ strings; a character is a string of length 1.  *)
(* A float is modelled exactly: a number of hundredths (cells), or a       *)
(* numerator over a stated denominator (scores).                           *)
(***************************************************************************)
EXTENDS Integers, Sequences, FiniteSets, TLC

VARIABLES
    file,               \* the upload handed to /extract
    pc,                 \* position of the /extract handler
    response,           \* what the handler returned
    extraction_result,  \* result of CSVExtractor.extract_csv
    invoked,            \* service methods the handler has called so far
    dataframe_data,     \* the typed table handed to the downstream stages
    metadata,           \* extraction metadata handed to the stages
    analysis_result,    \* result of DataAnalyzer.analyze_dataframe
    business_patterns,  \* result of DataAnalyzer.detect_business_patterns
    quality_result,     \* result of QualityChecker.check_quality
    recommendations,    \* result of DataAnalyzer.generate_recommendations
    stage_log,          \* the stages run so far, in execution order
    quality_report,     \* argument of QualityChecker._calculate_overall_score
    overall_score,      \* its result
    clock,              \* datetime.now() of the request, in days since 1970-01-01
    fault,              \* the library call that raises during this request, if any
    detected_domain,    \* result of DataAnalyzer._detect_business_domain
    services,           \* the module-level service objects and their fields
    requests,           \* the /extract requests in progress at the same time
    text_content,       \* the decoded lines handed to _detect_csv_parameters
    csv_params,         \* its result
    cleaned_df,         \* the table handed to _auto_detect_and_convert_types
    typed_df,           \* its result
    numeric_series,     \* the column handed to _detect_outliers_iqr
    outlier_index,      \* its result
    handled_df          \* the table _handle_missing_values_smart returns

vars == <<file, pc, response, extraction_result, invoked, dataframe_data,
          metadata, analysis_result, business_patterns, quality_result,
          recommendations, stage_log, quality_report, overall_score, clock, fault, detected_domain,
                   services, requests,
                   text_content, csv_params,
                   cleaned_df, typed_df, numeric_series, outlier_index, handled_df>>

-----------------------------------------------------------------------------
(* Bounds of the model *)

MaxCols == 2
MaxRows == 3

-----------------------------------------------------------------------------
(* Text helpers: Python str methods used by the services *)

Min(a, b) == IF a <= b THEN a ELSE b
Max(a, b) == IF a >= b THEN a ELSE b

Char(s, i) == SubSeq(s, i, i)

DigitChars == {"0", "1", "2", "3", "4", "5", "6", "7", "8", "9"}
UpperChars == {"A", "B", "C", "D", "E", "F", "G", "H", "I", "J", "K", "L", "M",
               "N", "O", "P", "Q", "R", "S", "T", "U", "V", "W", "X", "Y", "Z"}
SpaceChars == {" ", "\t", "\n", "\r"}

\* str.lower() on one character
LowerChar(c) ==
    CASE c = "A" -> "a" [] c = "B" -> "b" [] c = "C" -> "c" [] c = "D" -> "d"
      [] c = "E" -> "e" [] c = "F" -> "f" [] c = "G" -> "g" [] c = "H" -> "h"
      [] c = "I" -> "i" [] c = "J" -> "j" [] c = "K" -> "k" [] c = "L" -> "l"
      [] c = "M" -> "m" [] c = "N" -> "n" [] c = "O" -> "o" [] c = "P" -> "p"
      [] c = "Q" -> "q" [] c = "R" -> "r" [] c = "S" -> "s" [] c = "T" -> "t"
      [] c = "U" -> "u" [] c = "V" -> "v" [] c = "W" -> "w" [] c = "X" -> "x"
      [] c = "Y" -> "y" [] c = "Z" -> "z" [] OTHER -> c

RECURSIVE Lower(_)
Lower(s) == IF s = "" THEN "" ELSE LowerChar(Head(s)) \o Lower(Tail(s))

\* `sub in s`
Contains(sub, s) ==
    \E i \in 1..(Len(s) - Len(sub) + 1) : SubSeq(s, i, i + Len(sub) - 1) = sub

\* any(keyword in s for keyword in words)
ContainsAny(words, s) == \E w \in words : Contains(w, s)

\* s.replace(c, '') for every character c of chars
RECURSIVE Remove(_, _)
Remove(s, chars) ==
    IF s = "" THEN ""
    ELSE (IF Head(s) \in chars THEN "" ELSE Head(s)) \o Remove(Tail(s), chars)

RECURSIVE LStrip(_)
LStrip(s) == IF s # "" /\ Head(s) \in SpaceChars THEN LStrip(Tail(s)) ELSE s

RECURSIVE RStrip(_)
RStrip(s) ==
    IF s # "" /\ Char(s, Len(s)) \in SpaceChars
    THEN RStrip(SubSeq(s, 1, Len(s) - 1)) ELSE s

\* str.strip()
Strip(s) == RStrip(LStrip(s))

\* sep.join(words)
RECURSIVE Join(_, _)
Join(words, sep) ==
    IF Len(words) = 0 THEN ""
    ELSE IF Len(words) = 1 THEN words[1]
    ELSE words[1] \o sep \o Join(Tail(words), sep)

Range(f) == {f[i] : i \in DOMAIN f}

-----------------------------------------------------------------------------
(* DataAnalyzer: the catalog of business domains and domain detection *)

\* declaration order of self.business_domains (a dict keeps insertion order)
DomainOrder ==
    <<"rental_car", "sales", "hr", "finance", "marketing", "ecommerce", "logistics">>

business_domains ==
    [rental_car |->
        [keywords |-> <<"branch", "upsell", "upgrade", "proposal", "downgrade",
                        "rental", "car", "vehicle", "fleet">>,
         metrics  |-> <<"price", "revenue", "up", "down", "proposal">>,
         entities |-> <<"branch", "location", "station">>],
     sales |->
        [keywords |-> <<"revenue", "profit", "commission", "target", "achievement",
                        "sales", "deal", "conversion">>,
         metrics  |-> <<"amount", "total", "commission", "target", "achievement">>,
         entities |-> <<"salesperson", "agent", "territory", "region">>],
     hr |->
        [keywords |-> <<"employee", "department", "salary", "performance",
                        "evaluation", "hr", "staff">>,
         metrics  |-> <<"salary", "rating", "score", "bonus">>,
         entities |-> <<"employee", "department", "manager", "team">>],
     finance |->
        [keywords |-> <<"amount", "cost", "price", "budget", "expense", "financial",
                        "accounting">>,
         metrics  |-> <<"amount", "cost", "expense", "budget", "profit", "loss">>,
         entities |-> <<"account", "center", "department">>],
     marketing |->
        [keywords |-> <<"campaign", "conversion", "click", "impression", "ctr",
                        "marketing", "advertising">>,
         metrics  |-> <<"clicks", "impressions", "conversions", "ctr", "cpc", "cpm">>,
         entities |-> <<"campaign", "channel", "source">>],
     ecommerce |->
        [keywords |-> <<"product", "order", "customer", "purchase", "cart",
                        "checkout", "shipping">>,
         metrics  |-> <<"price", "quantity", "total", "shipping">>,
         entities |-> <<"customer", "product", "order", "category">>],
     logistics |->
        [keywords |-> <<"delivery", "shipping", "transport", "warehouse",
                        "inventory", "stock">>,
         metrics  |-> <<"quantity", "weight", "volume", "time", "cost">>,
         entities |-> <<"warehouse", "route", "vehicle", "driver">>]]

performance_keywords ==
    <<"revenue", "profit", "sales", "income", "earnings", "total", "amount",
      "price", "cost", "value", "score", "rating", "performance", "efficiency",
      "target", "goal", "achievement", "kpi", "metric", "volume", "quantity">>

entity_keywords ==
    <<"id", "name", "code", "ref", "reference", "number", "num",
      "branch", "office", "store", "location", "region", "territory",
      "agent", "employee", "user", "customer", "client", "account",
      "product", "item", "service", "category", "type", "group">>

\* points added per matched word of each vocabulary
KeywordPoints == 2
\* a metric word counted like a keyword
MetricPointsOfKeyword == KeywordPoints
MetricPoints == 3
EntityPoints == 2

\* one `for word in config[...]` loop: adds points and appends the word
RECURSIVE ScanWords(_, _, _, _)
ScanWords(words, text, points, acc) ==
    IF Len(words) = 0 THEN acc
    ELSE ScanWords(Tail(words), text, points,
            IF Contains(Head(words), text)
            THEN [score |-> acc.score + points,
                  matched_keywords |-> Append(acc.matched_keywords, Head(words))]
            ELSE acc)

\* the body of the loop over the catalog, for one domain; confidence is in tenths
ScoreDomain(domain, text) ==
    LET config == services.analyzer.business_domains[domain]
        a0 == [score |-> 0, matched_keywords |-> <<>>]
        a1 == ScanWords(config.keywords, text, KeywordPoints, a0)
        a2 == ScanWords(config.metrics, text, MetricPoints, a1)
        a3 == ScanWords(config.entities, text, EntityPoints, a2)
    IN [domain |-> domain, score |-> a3.score,
        matched_keywords |-> a3.matched_keywords,
        confidence |-> Min(a3.score, 10)]

\* domain_scores: the entries with score > 0, in catalog order
RECURSIVE DomainScores(_, _)
DomainScores(domains, text) ==
    IF Len(domains) = 0 THEN <<>>
    ELSE LET e == ScoreDomain(Head(domains), text)
         IN (IF e.score > 0 THEN <<e>> ELSE <<>>) \o DomainScores(Tail(domains), text)

\* a maximum search keeping the last item holding the maximum
RECURSIVE PyMaxLast(_, _)
PyMaxLast(items, best) ==
    IF Len(items) = 0 THEN best
    ELSE PyMaxLast(Tail(items),
                   IF Head(items).score >= best.score THEN Head(items) ELSE best)

\* max(items, key=score): the first item holding the maximum
RECURSIVE PyMaxByScore(_, _)
PyMaxByScore(items, best) ==
    IF Len(items) = 0 THEN best
    ELSE PyMaxByScore(Tail(items),
                      IF Head(items).score > best.score THEN Head(items) ELSE best)

_detect_business_domain(columns) ==
    LET all_columns_text == Lower(Join(columns, " "))
        domain_scores == DomainScores(DomainOrder, all_columns_text)
        primary == IF Len(domain_scores) > 0
                   THEN PyMaxByScore(Tail(domain_scores), Head(domain_scores))
                   ELSE [domain |-> "unknown", score |-> 0,
                         matched_keywords |-> <<>>, confidence |-> 0]
    IN [primary_domain |-> primary.domain,
        confidence |-> primary.confidence,
        matched_keywords |-> primary.matched_keywords,
        all_domain_scores |-> domain_scores]


-----------------------------------------------------------------------------
(* Cells, numbers and their text forms *)

\* A cell: missing (float NaN or None), text, number (in hundredths) or boolean.
NaN == [t |-> "nan", s |-> "", n |-> 0]
None == [t |-> "none", s |-> "", n |-> 0]
Str(s) == [t |-> "str", s |-> s, n |-> 0]
Num(n) == [t |-> "num", s |-> "", n |-> n]
Bool(b) == [t |-> "bool", s |-> "", n |-> IF b THEN 1 ELSE 0]
\* a Timestamp, as days since 1970-01-01, and the missing Timestamp
Date(day) == [t |-> "date", s |-> "", n |-> day]
NaTCell == [t |-> "nat", s |-> "", n |-> 0]

\* pd.isnull / Series.isnull
isnull(c) == c.t \in {"nan", "none", "nat"}
notnull(c) == ~isnull(c)

\* Series.dropna()
dropna(series) == SelectSeq(series, notnull)

\* Series.head(k)
head(series, k) == SubSeq(series, 1, Min(k, Len(series)))

DigitValue(c) ==
    CASE c = "0" -> 0 [] c = "1" -> 1 [] c = "2" -> 2 [] c = "3" -> 3 [] c = "4" -> 4
      [] c = "5" -> 5 [] c = "6" -> 6 [] c = "7" -> 7 [] c = "8" -> 8 [] c = "9" -> 9

DigitChar(d) == Char("0123456789", d + 1)

IsDigits(s) == s # "" /\ \A i \in 1..Len(s) : Char(s, i) \in DigitChars

RECURSIVE DigitsValue(_, _)
DigitsValue(s, acc) ==
    IF s = "" THEN acc ELSE DigitsValue(Tail(s), 10 * acc + DigitValue(Head(s)))

RECURSIVE NatToStr(_)
NatToStr(k) == IF k < 10 THEN DigitChar(k) ELSE NatToStr(k \div 10) \o DigitChar(k % 10)

\* position of the first "." of s, 0 when there is none
DotPos(s) ==
    IF Contains(".", s) THEN CHOOSE i \in 1..Len(s) :
            Char(s, i) = "." /\ \A j \in 1..(i - 1) : Char(s, j) # "."
    ELSE 0

\* the hundredths denoted by the fraction digits f (digits past the second are cut)
FracHundredths(f) ==
    IF f = "" THEN 0
    ELSE IF Len(f) = 1 THEN 10 * DigitValue(f)
    ELSE DigitsValue(SubSeq(f, 1, 2), 0)

\* unsigned decimal literal: digits, optionally one ".", at least one digit
ParseUnsigned(s) ==
    LET d == DotPos(s)
        ip == IF d = 0 THEN s ELSE SubSeq(s, 1, d - 1)
        fp == IF d = 0 THEN "" ELSE SubSeq(s, d + 1, Len(s))
    IN IF (ip = "" /\ fp = "") \/ (ip # "" /\ ~IsDigits(ip)) \/ (fp # "" /\ ~IsDigits(fp))
       THEN [ok |-> FALSE, nan |-> FALSE, v |-> 0]
       ELSE [ok |-> TRUE, nan |-> FALSE,
             v |-> 100 * DigitsValue(ip, 0) + FracHundredths(fp)]

\* float(s): surrounding blanks, a sign, a decimal literal, or the word nan.
\* (Exponents and inf are outside the texts the model draws.)
ParseFloat(s) ==
    LET t == Strip(s)
        neg == t # "" /\ Head(t) = "-"
        body == IF t # "" /\ Head(t) \in {"-", "+"} THEN Tail(t) ELSE t
        u == ParseUnsigned(body)
    IN IF Lower(body) = "nan" THEN [ok |-> TRUE, nan |-> TRUE, v |-> 0]
       ELSE IF u.ok /\ neg THEN [ok |-> TRUE, nan |-> FALSE, v |-> 0 - u.v]
       ELSE u

\* repr of a float held in hundredths: "12.5", "-3.0", "0.25"
FormatFloat(n) ==
    LET a == IF n < 0 THEN 0 - n ELSE n
        f == a % 100
    IN (IF n < 0 THEN "-" ELSE "") \o NatToStr(a \div 100) \o "." \o
       (IF f % 10 = 0 THEN DigitChar(f \div 10)
        ELSE DigitChar(f \div 10) \o DigitChar(f % 10))

\* str(value) / Series.astype(str) on one cell
astype_str(c) ==
    CASE c.t = "str" -> c.s
      [] c.t = "num" -> FormatFloat(c.n)
      [] c.t = "bool" -> (IF c.n = 1 THEN "True" ELSE "False")
      [] c.t = "nan" -> "nan"
      [] c.t = "none" -> "None"

\* pd.to_numeric(text, errors='coerce') on one cell
to_numeric(c) ==
    CASE c.t = "num" -> c
      [] c.t = "bool" -> Num(100 * c.n)
      [] c.t = "str" -> (LET r == ParseFloat(c.s)
                         IN IF r.ok /\ ~r.nan THEN Num(r.v) ELSE NaN)
      [] OTHER -> NaN

\* number of elements of a sequence that satisfy Test
Count(series, Test(_)) == Len(SelectSeq(series, Test))

\* exact fractions n/d, d > 0, kept in lowest terms
RECURSIVE Gcd(_, _)
Gcd(a, b) == IF b = 0 THEN a ELSE Gcd(b, a % b)

Frac(n, d) ==
    LET g == Gcd(IF n < 0 THEN 0 - n ELSE n, d)
    IN IF n = 0 THEN [n |-> 0, d |-> 1] ELSE [n |-> n \div g, d |-> d \div g]

FAdd(a, b) == Frac(a.n * b.d + b.n * a.d, a.d * b.d)
FSub(a, b) == Frac(a.n * b.d - b.n * a.d, a.d * b.d)
FMul(a, b) == Frac(a.n * b.n, a.d * b.d)
FDiv(a, b) == IF b.n > 0 THEN Frac(a.n * b.d, a.d * b.n) ELSE Frac(0 - (a.n * b.d), a.d * (0 - b.n))
FLess(a, b) == a.n * b.d < b.n * a.d
FLeq(a, b) == a.n * b.d <= b.n * a.d
FInt(k) == [n |-> k, d |-> 1]
FMax(a, b) == IF FLess(a, b) THEN b ELSE a
FMin(a, b) == IF FLess(b, a) THEN b ELSE a


-----------------------------------------------------------------------------
(* Tables *)

(* dataframe_data is the dict {'data': rows, 'columns': names, 'dtypes': ...};  *)
(* a row record is held as the sequence of its cells in column order.       *)
(* A DataFrame df is held column-wise: df.col[j][i] is row i of column j.   *)

\* dtype pandas infers for a column built from Python values
InferDtype(cells) ==
    LET kinds == {cells[i].t : i \in DOMAIN cells}
    IN IF kinds \subseteq {"num", "nan", "none"} /\ kinds \cap {"num", "nan"} # {}
       THEN "float64"
       ELSE IF kinds = {"bool"} THEN "bool"
       ELSE "object"

\* pd.DataFrame(records): None becomes NaN in a numeric column
BuildColumn(cells) ==
    IF InferDtype(cells) = "float64"
    THEN [i \in DOMAIN cells |-> IF isnull(cells[i]) THEN NaN ELSE cells[i]]
    ELSE cells

DataFrame(names, rows) ==
    LET ncols == IF Len(rows) = 0 THEN 0 ELSE Len(names)
        cols == [j \in 1..ncols |-> BuildColumn([i \in 1..Len(rows) |-> rows[i][j]])]
    IN [columns |-> SubSeq(names, 1, ncols),
        dtype |-> [j \in 1..ncols |-> InferDtype(cols[j])],
        col |-> cols,
        nrows |-> Len(rows)]

\* len(df), len(df.columns), df.empty
len(df) == df.nrows
ncols(df) == Len(df.columns)
empty(df) == len(df) = 0 \/ ncols(df) = 0

ColIdx(df) == 1..ncols(df)
RowIdx(df) == 1..len(df)

\* the indices 1..n that satisfy Test, in increasing order
IndicesWhere(n, Test(_)) == SelectSeq([k \in 1..n |-> k], Test)

\* [col for col in df.columns if any(keyword in col.lower() for keyword in words)]
ColumnsNamed(df, words) ==
    IndicesWhere(ncols(df), LAMBDA j : ContainsAny(words, Lower(df.columns[j])))

\* df.select_dtypes(include=[np.number]).columns
NumericCols(df) == IndicesWhere(ncols(df), LAMBDA j : df.dtype[j] = "float64")

\* df.isnull().sum().sum()
MissingCells(df) ==
    Cardinality({<<j, i>> \in ColIdx(df) \X RowIdx(df) : isnull(df.col[j][i])})

\* Series.isnull().sum()
NullCount(series) == Count(series, isnull)

\* df.duplicated().sum(): rows equal to an earlier row
DuplicatedRows(df) ==
    Cardinality({i \in RowIdx(df) :
        \E k \in 1..(i - 1) : \A j \in ColIdx(df) : df.col[j][k] = df.col[j][i]})

\* Series.duplicated().sum(): values equal to an earlier value (missing ones match)
DuplicatedValues(series) ==
    Cardinality({i \in DOMAIN series : \E k \in 1..(i - 1) :
        series[k] = series[i] \/ (isnull(series[k]) /\ isnull(series[i]))})

\* Series.nunique(): distinct non-missing values
nunique(series) == Cardinality(Range(dropna(series)))

\* Series.value_counts().iloc[0]: occurrences of the most frequent value
TopCount(series) ==
    LET vals == dropna(series)
        occ(v) == Count(vals, LAMBDA c : c = v)
    IN IF Len(vals) = 0 THEN 0
       ELSE occ(CHOOSE v \in Range(vals) : \A w \in Range(vals) : occ(v) >= occ(w))


-----------------------------------------------------------------------------
(* Dates *)

\* days since 1970-01-01 of a civil date
DaysFromCivil(y0, m, d) ==
    LET y == IF m <= 2 THEN y0 - 1 ELSE y0
        era == y \div 400
        yoe == y - era * 400
        doy == (153 * (IF m > 2 THEN m - 3 ELSE m + 9) + 2) \div 5 + d - 1
        doe == yoe * 365 + yoe \div 4 - yoe \div 100 + doy
    IN era * 146097 + doe - 719468

\* text of the shape YYYY-MM-DD naming a month 1..12 and a day 1..31
IsIsoDate(s) ==
    /\ Len(s) = 10
    /\ Char(s, 5) = "-" /\ Char(s, 8) = "-"
    /\ IsDigits(SubSeq(s, 1, 4)) /\ IsDigits(SubSeq(s, 6, 7)) /\ IsDigits(SubSeq(s, 9, 10))
    /\ DigitsValue(SubSeq(s, 6, 7), 0) \in 1..12
    /\ DigitsValue(SubSeq(s, 9, 10), 0) \in 1..31

NaT == [ok |-> FALSE, day |-> 0]

\* pd.to_datetime(value, errors='coerce') on one cell: a number counts
\* nanoseconds from the epoch, a text is read as an ISO date
to_datetime(c) ==
    CASE c.t = "str" ->
            (LET t == Strip(c.s)
             IN IF IsIsoDate(t)
                THEN [ok |-> TRUE,
                      day |-> DaysFromCivil(DigitsValue(SubSeq(t, 1, 4), 0),
                                            DigitsValue(SubSeq(t, 6, 7), 0),
                                            DigitsValue(SubSeq(t, 9, 10), 0))]
                ELSE NaT)
      [] c.t = "num" -> [ok |-> TRUE, day |-> IF c.n < 0 THEN 0 - 1 ELSE 0]
      [] OTHER -> NaT

\* maximum and minimum of a non-empty set of integers
SetMax(S) == CHOOSE x \in S : \A y \in S : y <= x
SetMin(S) == CHOOSE x \in S : \A y \in S : x <= y


-----------------------------------------------------------------------------
(* QualityChecker: the seven dimensions *)

MapSeq(seq, F(_)) == [i \in DOMAIN seq |-> F(seq[i])]

\* a result of a dimension check, or the exception it raised
Dimension(score, issues) ==
    [raised |-> FALSE, error |-> "", score |-> score, issues |-> issues]
Raised(error) ==
    [raised |-> TRUE, error |-> error, score |-> FInt(0), issues |-> <<>>]

\* self.quality_thresholds['completeness'], in hundredths
CompletenessThreshold == 80

_check_completeness(df) ==
    LET total_cells == len(df) * ncols(df)
        missing_cells == MissingCells(df)
        completeness_ratio == IF total_cells > 0
                              THEN Frac(total_cells - missing_cells, total_cells)
                              ELSE FInt(0)
        low == IndicesWhere(ncols(df), LAMBDA j :
                   \* col_completeness < 0.8
                   10 * (len(df) - NullCount(df.col[j])) < 8 * len(df))
        col_issues == MapSeq(low, LAMBDA j :
                   "Colonne '" \o df.columns[j] \o "': valeurs manquantes")
        global_issue == IF FLess(completeness_ratio,
                                 Frac(services.quality_checker.quality_thresholds.completeness, 100))
                        THEN <<"Completude globale faible">> ELSE <<>>
    IN Dimension(FMul(completeness_ratio, FInt(100)), col_issues \o global_issue)

\* float(str(val).replace(',', '').replace('"', '')) succeeds
NumericLike(c) == ParseFloat(Remove(astype_str(c), {",", "\""})).ok

\* 0.3 < numeric_like / len(sample_values) < 0.9, for a non-empty sample
MixedTypes(series) ==
    LET sample_values == head(dropna(series), 100)
        numeric_like == Count(sample_values, NumericLike)
    IN /\ 3 * Len(sample_values) < 10 * numeric_like
       /\ 10 * numeric_like < 9 * Len(sample_values)

\* step 2 of _check_consistency for column j: the format issues it appends
FormatIssues(df, j) ==
    LET col_lower == Lower(df.columns[j])
        sample_values == MapSeq(head(df.col[j], 50), astype_str)
        has_percent_symbol == Count(sample_values, LAMBDA v : Contains("%", v))
        has_comma == Count(sample_values, LAMBDA v : Contains(",", v))
        has_quotes == Count(sample_values, LAMBDA v : Contains("\"", v))
    IN (IF /\ (Contains("%", col_lower) \/ Contains("rate", col_lower))
           /\ 0 < has_percent_symbol
           /\ 10 * has_percent_symbol < 8 * Len(sample_values)
        THEN <<"Colonne '" \o df.columns[j] \o "': Format pourcentage incoherent">>
        ELSE <<>>)
       \o
       (IF /\ ContainsAny({"revenue", "price", "cost", "package"}, col_lower)
           /\ has_comma > 0 /\ has_quotes # has_comma
        THEN <<"Colonne '" \o df.columns[j] \o "': Format monetaire incoherent">>
        ELSE <<>>)

RECURSIVE AllFormatIssues(_, _)
AllFormatIssues(df, j) ==
    IF j > ncols(df) THEN <<>> ELSE FormatIssues(df, j) \o AllFormatIssues(df, j + 1)

\* step 3 of _check_consistency: the agent-pattern issue
AgentPatternIssues(df) ==
    LET agent_cols == ColumnsNamed(df, {"agent"})
    IN IF Len(agent_cols) = 0 THEN <<>>
       ELSE LET agent_col == agent_cols[1]
                agent_values == MapSeq(df.col[agent_col], astype_str)
                valid_pattern_count == Count(head(agent_values, 100), LAMBDA v :
                    Contains(" - ", v) \/ Contains("exit employee", Lower(v)))
            IN \* pattern_ratio < 0.9
               IF 10 * valid_pattern_count < 9 * Min(100, Len(agent_values))
               THEN <<"Colonne '" \o df.columns[agent_col] \o "': Pattern agent incoherent">>
               ELSE <<>>

_check_consistency(df) ==
    LET object_cols == IndicesWhere(ncols(df), LAMBDA j : df.dtype[j] = "object")
        \* numeric_like / len(sample_values) divides by zero on an all-missing column
        zero_division == \E k \in DOMAIN object_cols :
                             Len(dropna(df.col[object_cols[k]])) = 0
        mixed == SelectSeq(object_cols, LAMBDA j : MixedTypes(df.col[j]))
        type_inconsistencies == Len(mixed)
        type_issues == MapSeq(mixed, LAMBDA j :
                           "Colonne '" \o df.columns[j] \o "': Types mixtes detectes")
        consistency_score ==
            IF type_inconsistencies > 0
            THEN FSub(FInt(1), FMul(Frac(type_inconsistencies, ncols(df)), Frac(3, 10)))
            ELSE FInt(1)
    IN IF zero_division THEN Raised("division by zero")
       ELSE Dimension(FMul(FMax(FInt(0), consistency_score), FInt(100)),
                      type_issues \o AllFormatIssues(df, 1) \o AgentPatternIssues(df))

\* pd.to_numeric(df[col].astype(str).str.replace(...), errors='coerce')
CleanedNumeric(series, chars) ==
    MapSeq(series, LAMBDA c : to_numeric(Str(Remove(astype_str(c), chars))))

AllNaN(series) == \A i \in DOMAIN series : isnull(series[i])

\* one check of _check_validity: the issue it appends and the values it counts invalid
ValidityCheck(applies, counted, text) ==
    IF applies THEN [issues |-> <<text>>, invalid |-> counted]
    ELSE [issues |-> <<>>, invalid |-> 0]

NegativeCount(plain) == Count(plain, LAMBDA c : notnull(c) /\ c.n < 0)
OutOfRange(percent) == Count(percent, LAMBDA c : notnull(c) /\ (c.n < 0 \/ c.n > 10000))
ExcessiveValues(plain) == Count(plain, LAMBDA c : notnull(c) /\ c.n > 100000000)

\* negative values in a count column
NegativeCheck(col, plain) ==
    ValidityCheck(/\ ContainsAny({"count", "number", "#", "contracts"}, Lower(col))
                  /\ NegativeCount(plain) > 0,
                  NegativeCount(plain),
                  "Colonne '" \o col \o "': valeurs negatives inappropriees")

\* percentages outside 0..100 in a percentage column
PercentCheck(col, percent) ==
    ValidityCheck(/\ \/ Contains("%", col)
                     \/ Contains("rate", Lower(col))
                     \/ Contains("share", Lower(col))
                  /\ ~AllNaN(percent)
                  /\ OutOfRange(percent) > 0,
                  OutOfRange(percent),
                  "Colonne '" \o col \o "': pourcentages hors limites")

\* values above 1e6 in a financial column: an issue, nothing counted invalid
FinancialCheck(col, plain) ==
    ValidityCheck(/\ ContainsAny({"revenue", "package", "ir"}, Lower(col))
                  /\ ~AllNaN(plain)
                  /\ ExcessiveValues(plain) > 0,
                  0,
                  "Colonne '" \o col \o "': valeurs potentiellement aberrantes")

ValidityJoin(h, t) ==
    [issues |-> h.issues \o t.issues, invalid |-> h.invalid + t.invalid]

\* the checks of _check_validity on column j
ValidityOfColumn(df, j) ==
    ValidityJoin(NegativeCheck(df.columns[j], CleanedNumeric(df.col[j], {",", "\""})),
        ValidityJoin(PercentCheck(df.columns[j], CleanedNumeric(df.col[j], {"%", ","})),
                     FinancialCheck(df.columns[j], CleanedNumeric(df.col[j], {",", "\""}))))

RECURSIVE ValidityFrom(_, _)
ValidityFrom(df, j) ==
    IF j > ncols(df) THEN [issues |-> <<>>, invalid |-> 0]
    ELSE ValidityJoin(ValidityOfColumn(df, j), ValidityFrom(df, j + 1))

ValidityScore(v, total_data_points) ==
    Dimension(FMul(IF total_data_points > 0
                   THEN FMax(FInt(0), FSub(FInt(1), Frac(v.invalid, total_data_points)))
                   ELSE FInt(1),
                   FInt(100)),
              v.issues)

_check_validity(df) == ValidityScore(ValidityFrom(df, 1), len(df) * ncols(df))


\* step 2 of _check_accuracy: one indicator per total/sum column when one of the
\* last three rows starts with a cell mentioning a total
TotalRowIndicators(df) ==
    LET total_cols == ColumnsNamed(df, {"total", "sum"})
        last_rows == {i \in RowIdx(df) : i > len(df) - 3}
        total_row == \E i \in last_rows :
            ContainsAny({"total", "sum", ","}, Lower(astype_str(df.col[1][i])))
    IN IF total_row THEN MapSeq(total_cols, LAMBDA j : "Ligne de total detectee")
       ELSE <<>>

\* step 3 of _check_accuracy: exit employees whose numeric columns are mostly zero
ExitEmployeeIndicators(df) ==
    LET agent_cols == ColumnsNamed(df, {"agent"})
        numeric_cols == NumericCols(df)
    IN IF Len(agent_cols) = 0 \/ Len(numeric_cols) = 0 THEN <<>>
       ELSE LET agent_col == agent_cols[1]
                exit_rows == {i \in RowIdx(df) :
                    Contains("exit employee", Lower(astype_str(df.col[agent_col][i])))}
                zeros(j) == Cardinality({i \in exit_rows :
                    LET c == to_numeric(Str(Remove(astype_str(df.col[j][i]), {",", "\""})))
                    IN notnull(c) /\ c.n = 0})
                consistent == SelectSeq(head(numeric_cols, 3), LAMBDA j :
                    \* zero_ratio > 0.8
                    10 * zeros(j) > 8 * Cardinality(exit_rows))
            IN IF exit_rows = {} THEN <<>>
               ELSE MapSeq(consistent, LAMBDA j :
                    "Exit Employees avec donnees coherentes in " \o df.columns[j])

\* step 4 of _check_accuracy: one value fills more than half of the rows
DominantValueIssues(df) ==
    LET suspect == IndicesWhere(ncols(df), LAMBDA j :
            /\ df.dtype[j] = "object"
            /\ nunique(df.col[j]) > 1
            /\ 2 * TopCount(df.col[j]) > len(df))
    IN MapSeq(suspect, LAMBDA j :
            "Colonne '" \o df.columns[j] \o "': valeurs identiques")

BaseAccuracy == 80
AccuracyBonus == 5
AccuracyMalus == 10

_check_accuracy(df) ==
    LET accuracy_indicators == TotalRowIndicators(df) \o ExitEmployeeIndicators(df)
        issues == DominantValueIssues(df)
        final_accuracy == Max(0, Min(100, BaseAccuracy
                                + Len(accuracy_indicators) * AccuracyBonus
                                - Len(issues) * AccuracyMalus))
    IN Dimension(FInt(final_accuracy), issues)

_check_uniqueness(df) ==
    LET duplicate_rows == DuplicatedRows(df)
        id_columns == ColumnsNamed(df, {"id", "agent", "employee"})
        dup(j) == DuplicatedValues(df.col[j])
        RECURSIVE SumDup(_)
        SumDup(k) == IF k > Len(id_columns) THEN 0 ELSE dup(id_columns[k]) + SumDup(k + 1)
        duplicate_ids == SumDup(1)
        id_issues == MapSeq(SelectSeq(id_columns, LAMBDA j : dup(j) > 0), LAMBDA j :
                        "Colonne '" \o df.columns[j] \o "': valeurs dupliquees")
        total_expected_unique == IF Len(id_columns) > 0
                                 THEN len(df) * Len(id_columns) ELSE len(df)
        total_duplicates == duplicate_rows + duplicate_ids
        uniqueness_score == FMax(FInt(0),
            FSub(FInt(1), Frac(total_duplicates, Max(1, total_expected_unique))))
    IN Dimension(FMul(uniqueness_score, FInt(100)),
                 id_issues \o (IF duplicate_rows > 0
                               THEN <<"lignes entierement dupliquees">> ELSE <<>>))

DefaultTimeliness == 85
NoDateTimeliness == 60

\* the try block of _check_timeliness for date column j: penalty and issues
\* (pd.to_datetime raises on a boolean column and the block is skipped)
TimelinessOfColumn(df, j, now) ==
    LET dates == MapSeq(df.col[j], to_datetime)
        valid_dates == {dates[i].day : i \in {k \in DOMAIN dates : dates[k].ok}}
        latest_date == SetMax(valid_dates)
        oldest_date == SetMin(valid_dates)
        days_since_latest == now - latest_date
        col == df.columns[j]
    IN IF df.dtype[j] = "bool" \/ valid_dates = {} THEN [penalty |-> 0, issues |-> <<>>]
       ELSE [penalty |-> IF days_since_latest > 365 THEN 20
                         ELSE IF days_since_latest > 30 THEN 10 ELSE 0,
             issues |->
                (IF days_since_latest > 365
                 THEN <<"Colonne '" \o col \o "': Donnees datent de plus d'un an">>
                 ELSE IF days_since_latest > 30
                 THEN <<"Colonne '" \o col \o "': Donnees datent de plus d'un mois">>
                 ELSE <<>>) \o
                (IF latest_date - oldest_date > 365 * 2
                 THEN <<"Colonne '" \o col \o "': Tres large plage temporelle">>
                 ELSE <<>>)]

RECURSIVE TimelinessFrom(_, _, _, _)
TimelinessFrom(df, date_columns, k, now) ==
    IF k > Len(date_columns) THEN [penalty |-> 0, issues |-> <<>>]
    ELSE LET h == TimelinessOfColumn(df, date_columns[k], now)
             t == TimelinessFrom(df, date_columns, k + 1, now)
         IN [penalty |-> h.penalty + t.penalty, issues |-> h.issues \o t.issues]

\* the same check with a table without date column left at the default score
_check_timeliness_without_note(df, now) ==
    LET date_columns == ColumnsNamed(df, {"date", "month", "year", "time"})
        t == TimelinessFrom(df, date_columns, 1, now)
    IN Dimension(FInt(Max(0, DefaultTimeliness - t.penalty)), t.issues)

_check_timeliness(df, now) ==
    LET date_columns == ColumnsNamed(df, {"date", "month", "year", "time"})
        t == TimelinessFrom(df, date_columns, 1, now)
    IN IF Len(date_columns) > 0
       THEN Dimension(FInt(Max(0, DefaultTimeliness - t.penalty)), t.issues)
       ELSE Dimension(FInt(Max(0, NoDateTimeliness)),
                      <<"Aucune colonne de date detectee">>)

_check_integrity(df) ==
    LET empty_headers == IndicesWhere(ncols(df), LAMBDA j : Strip(df.columns[j]) = "")
        empty_columns == IndicesWhere(ncols(df), LAMBDA j : AllNaN(df.col[j]))
        empty_rows == Cardinality({i \in RowIdx(df) :
                          \A j \in ColIdx(df) : isnull(df.col[j][i])})
        special_char_issues == Len(IndicesWhere(ncols(df), LAMBDA j :
                          ContainsAny({"\n", "\r", "\t"}, df.columns[j])))
        integrity_score ==
            100 - (IF Len(empty_headers) > 0 THEN 20 ELSE 0)
                - 10 * Len(empty_columns)
                - (IF empty_rows > 0 THEN Min(20, empty_rows * 2) ELSE 0)
                - (IF ncols(df) < 2 THEN 30 ELSE 0)
                - special_char_issues * 5
    IN Dimension(FInt(Max(0, integrity_score)),
            (IF Len(empty_headers) > 0 THEN <<"colonnes sans nom">> ELSE <<>>) \o
            (IF Len(empty_columns) > 0 THEN <<"colonnes entierement vides">> ELSE <<>>) \o
            (IF empty_rows > 0 THEN <<"lignes entierement vides">> ELSE <<>>) \o
            (IF ncols(df) < 2 THEN <<"Tres peu de colonnes detectees">> ELSE <<>>) \o
            (IF special_char_issues > 0
             THEN <<"colonnes avec caracteres de controle">> ELSE <<>>))


\* sorted(values): insertion of x before the first greater element
RECURSIVE Insert(_, _)
Insert(x, sorted) ==
    IF Len(sorted) = 0 THEN <<x>>
    ELSE IF x <= Head(sorted) THEN <<x>> \o sorted
    ELSE <<Head(sorted)>> \o Insert(x, Tail(sorted))

RECURSIVE Sort(_)
Sort(values) == IF Len(values) = 0 THEN <<>> ELSE Insert(Head(values), Sort(Tail(values)))

\* Series.quantile(num/den) with linear interpolation, on a non-empty list of numbers
Quantile(values, num, den) ==
    LET sorted == Sort(values)
        pos == (Len(sorted) - 1) * num
        lo == pos \div den
        rest == pos % den
        below == sorted[lo + 1]
        above == sorted[Min(lo + 2, Len(sorted))]
    IN Frac(below * den + (above - below) * rest, den)

RECURSIVE SumSeq(_)
SumSeq(values) == IF Len(values) = 0 THEN 0 ELSE Head(values) + SumSeq(Tail(values))

\* a run of at least ten digits occurs in s (regex [0-9]{10,})
HasLongDigitRun(s) ==
    \E i \in 1..(Len(s) - 9) : IsDigits(SubSeq(s, i, i + 9))

\* part 1 of _detect_anomalies for numeric column j
ExtremeOutliers(df, j) ==
    LET series == MapSeq(dropna(df.col[j]), LAMBDA c : c.n)
        Q1 == Quantile(series, 1, 4)
        Q3 == Quantile(series, 3, 4)
        IQR == FSub(Q3, Q1)
        low == FSub(Q1, FMul(FInt(3), IQR))
        high == FAdd(Q3, FMul(FInt(3), IQR))
        extreme_outliers == SelectSeq(series, LAMBDA v :
                                FLess(FInt(v), low) \/ FLess(high, FInt(v)))
    IN IF Len(series) > 4 /\ Len(extreme_outliers) > 0
       THEN <<[type |-> "extreme_outlier", column |-> df.columns[j],
               count |-> Len(extreme_outliers)]>>
       ELSE <<>>

\* part 2 of _detect_anomalies for object column j: length_std > length_mean * 0.5
LengthAnomaly(df, j) ==
    LET sample_values == MapSeq(head(dropna(df.col[j]), 100), astype_str)
        lengths == MapSeq(sample_values, Len)
        n == Len(lengths)
        total == SumSeq(lengths)
        squares == SumSeq(MapSeq(lengths, LAMBDA x : x * x))
    IN IF n > 10 /\ 4 * n * (n * squares - total * total) > (n - 1) * total * total
       THEN <<[type |-> "format_inconsistency", column |-> df.columns[j], count |-> 1]>>
       ELSE <<>>

\* part 3 of _detect_anomalies: agents whose name holds a very long identifier
SuspiciousAgents(df) ==
    LET agent_cols == ColumnsNamed(df, {"agent"})
    IN IF Len(agent_cols) = 0 THEN <<>>
       ELSE LET agent_col == agent_cols[1]
                suspicious_agents == SelectSeq(MapSeq(df.col[agent_col], astype_str),
                                               HasLongDigitRun)
            IN IF Len(suspicious_agents) > 0
               THEN <<[type |-> "data_quality", column |-> df.columns[agent_col],
                       count |-> Len(suspicious_agents)]>>
               ELSE <<>>

\* the concatenation of a list of lists
RECURSIVE Flatten(_)
Flatten(lists) == IF Len(lists) = 0 THEN <<>> ELSE Head(lists) \o Flatten(Tail(lists))

ConcatMap(df, cols, F(_, _)) == Flatten(MapSeq(cols, LAMBDA j : F(df, j)))

_detect_anomalies(df) ==
    ConcatMap(df, NumericCols(df), ExtremeOutliers)
    \o ConcatMap(df, IndicesWhere(ncols(df), LAMBDA j : df.dtype[j] = "object"),
                 LengthAnomaly)
    \o SuspiciousAgents(df)


-----------------------------------------------------------------------------
(* QualityChecker: the overall score and the report *)

\* iteration order of the weights dict
DimensionOrder ==
    <<"completeness", "consistency", "validity", "accuracy", "uniqueness",
      "timeliness", "integrity">>

\* the weights of completeness and consistency exchanged
weights_exchanged ==
    [completeness |-> 20, consistency |-> 25, validity |-> 20, accuracy |-> 15,
     uniqueness |-> 10, timeliness |-> 5, integrity |-> 5]

\* the weights of _calculate_overall_score, in hundredths
weights ==
    [completeness |-> 25, consistency |-> 20, validity |-> 20, accuracy |-> 15,
     uniqueness |-> 10, timeliness |-> 5, integrity |-> 5]

\* `dimension in report and 'score' in report[dimension]`
HasScore(report, dimension) ==
    /\ dimension \in DOMAIN report
    /\ "score" \in DOMAIN report[dimension]

\* the loop of _calculate_overall_score over the dimensions from position k on
RECURSIVE ScoreLoop(_, _, _)
ScoreLoop(report, k, acc) ==
    IF k > Len(DimensionOrder) THEN acc
    ELSE LET dimension == DimensionOrder[k]
             weight == weights[dimension]
         IN ScoreLoop(report, k + 1,
                IF HasScore(report, dimension)
                THEN [weighted_score |->
                          FAdd(acc.weighted_score,
                               FMul(report[dimension].score, Frac(weight, 100))),
                      total_weight |-> acc.total_weight + weight]
                ELSE acc)

\* the same loop, the total weight halved before the division
_calculate_overall_score_half_weight(report) ==
    LET r == ScoreLoop(report, 1,
                 [weighted_score |-> FInt(0), total_weight |-> 0])
    IN IF r.total_weight > 0
       THEN FDiv(r.weighted_score, Frac(r.total_weight, 200))
       ELSE FInt(0)

_calculate_overall_score(report) ==
    LET r == ScoreLoop(report, 1,
                 [weighted_score |-> FInt(0), total_weight |-> 0])
    IN IF r.total_weight > 0
       THEN FDiv(r.weighted_score, Frac(r.total_weight, 100))
       ELSE FInt(0)

\* report.get(dimension, {}).get('score', 100) < limit
ScoreBelow(report, dimension, limit) ==
    HasScore(report, dimension)
    /\ FLess(report[dimension].score, FInt(limit))

_generate_quality_recommendations(report) ==
    LET overall == report.overall_score
    IN <<IF FLeq(FInt(90), overall) THEN "Excellente qualite de donnees"
         ELSE IF FLeq(FInt(80), overall) THEN "Bonne qualite de donnees"
         ELSE IF FLeq(FInt(70), overall) THEN "Qualite acceptable"
         ELSE IF FLeq(FInt(60), overall) THEN "Qualite problematique"
         ELSE "Qualite critique">>
       \o (IF ScoreBelow(report, "completeness", 80)
           THEN <<"Traiter les valeurs manquantes avant analyse">> ELSE <<>>)
       \o (IF ScoreBelow(report, "consistency", 80)
           THEN <<"Standardiser les formats de donnees">> ELSE <<>>)
       \o (IF ScoreBelow(report, "validity", 80)
           THEN <<"Nettoyer les valeurs aberrantes">> ELSE <<>>)
       \o (IF ScoreBelow(report, "uniqueness", 90)
           THEN <<"Eliminer les doublons detectes">> ELSE <<>>)
       \o (IF ScoreBelow(report, "timeliness", 70)
           THEN <<"Verifier la fraicheur des donnees">> ELSE <<>>)
       \o (IF Len(report.anomalies) > 0
           THEN <<"Investiguer les anomalies detectees">> ELSE <<>>)

\* one dimension entry of a report
Entry(score, issues) == [score |-> score, issues |-> issues]

_get_empty_report ==
    [overall_score |-> FInt(0),
     completeness |-> Entry(FInt(0), <<"Dataset vide">>),
     consistency |-> Entry(FInt(0), <<"Dataset vide">>),
     validity |-> Entry(FInt(0), <<"Dataset vide">>),
     accuracy |-> Entry(FInt(0), <<"Dataset vide">>),
     uniqueness |-> Entry(FInt(0), <<"Dataset vide">>),
     timeliness |-> Entry(FInt(0), <<"Dataset vide">>),
     integrity |-> Entry(FInt(0), <<"Dataset vide">>),
     anomalies |-> <<>>,
     recommendations |-> <<"Verifier la source des donnees">>]

_get_error_report(error_msg) ==
    [overall_score |-> FInt(0),
     completeness |-> Entry(FInt(0), <<"Erreur: " \o error_msg>>),
     consistency |-> Entry(FInt(0), <<>>),
     validity |-> Entry(FInt(0), <<>>),
     accuracy |-> Entry(FInt(0), <<>>),
     uniqueness |-> Entry(FInt(0), <<>>),
     timeliness |-> Entry(FInt(0), <<>>),
     integrity |-> Entry(FInt(0), <<>>),
     anomalies |-> <<>>,
     recommendations |-> <<"Verifier le format des donnees">>]

\* QualityChecker._get_dataframe: pd.DataFrame(df_input['data'])
_get_dataframe(df_input) == DataFrame(df_input.columns, df_input.data)

\* the seven dimension checks in the order check_quality evaluates them
Dimensions(df, now) ==
    [completeness |-> _check_completeness(df),
     consistency |-> _check_consistency(df),
     validity |-> _check_validity(df),
     accuracy |-> _check_accuracy(df),
     uniqueness |-> _check_uniqueness(df),
     timeliness |-> _check_timeliness(df, now),
     integrity |-> _check_integrity(df)]

\* the report of a run in which no dimension raised, before the overall score
ScoredReport(dims, anomalies) ==
    [overall_score |-> FInt(0),
     completeness |-> Entry(dims.completeness.score, dims.completeness.issues),
     consistency |-> Entry(dims.consistency.score, dims.consistency.issues),
     validity |-> Entry(dims.validity.score, dims.validity.issues),
     accuracy |-> Entry(dims.accuracy.score, dims.accuracy.issues),
     uniqueness |-> Entry(dims.uniqueness.score, dims.uniqueness.issues),
     timeliness |-> Entry(dims.timeliness.score, dims.timeliness.issues),
     integrity |-> Entry(dims.integrity.score, dims.integrity.issues),
     anomalies |-> anomalies,
     recommendations |-> <<>>]

WithOverallScore(report) ==
    [report EXCEPT !.overall_score = _calculate_overall_score(report)]

WithRecommendations(report) ==
    [report EXCEPT !.recommendations = _generate_quality_recommendations(report)]

\* the first dimension that raised, in evaluation order
FirstRaised(dims) == SelectSeq(DimensionOrder, LAMBDA d : dims[d].raised)

\* the body of the try block of check_quality and its except clause
QualityReportOf(dims, anomalies) ==
    IF Len(FirstRaised(dims)) > 0
    THEN _get_error_report(dims[FirstRaised(dims)[1]].error)
    ELSE WithRecommendations(WithOverallScore(ScoredReport(dims, anomalies)))

CheckQualityOf(df, now) ==
    IF empty(df) THEN _get_empty_report
    ELSE QualityReportOf(Dimensions(df, now), _detect_anomalies(df))

check_quality(df_input, now) == CheckQualityOf(_get_dataframe(df_input), now)


-----------------------------------------------------------------------------
(* DataAnalyzer: reconstruction, column analysis, stages *)

(* The statistics blocks of the analyzer (correlations, distributions,      *)
(* rankings, insights, summaries) only read df and add entries to the       *)
(* result; the model keeps the entries the stages and the handler branch on. *)

\* a result, or the exception raised while computing it
Ok(value) == [raised |-> FALSE, error |-> "", value |-> value]
Raise(error) == [raised |-> TRUE, error |-> error, value |-> <<>>]

\* the texts of the model are ASCII: of [$€£¥]|USD|EUR|CHF|GBP (case=False)
\* they can match the dollar sign and the four codes
CurrencyMarks == {"$", "usd", "eur", "chf", "gbp"}
HasCurrencyMark(s) == ContainsAny(CurrencyMarks, Lower(s))

\* pd.DataFrame(data) followed by df.columns = columns: the assignment raises
\* when the number of names differs from the number of columns built
_reconstruct_dataframe(dd) ==
    LET df == DataFrame(dd.columns, dd.data)
    IN IF Len(dd.columns) > 0 /\ ncols(df) # Len(dd.columns)
       THEN Raise("Length mismatch")
       ELSE Ok(df)

_get_basic_column_stats(df, j) ==
    [count |-> len(df) - NullCount(df.col[j]),
     null_count |-> NullCount(df.col[j]),
     unique_count |-> nunique(df.col[j]),
     duplicate_count |-> DuplicatedValues(df.col[j])]

_analyze_column_data_type(df, j) ==
    LET sample == dropna(df.col[j])
        sample_str == MapSeq(sample, astype_str)
        n == Len(sample)
        numeric == Count(sample, LAMBDA c : notnull(to_numeric(c)))
        unique == nunique(sample)
    IN IF n = 0 THEN [is_empty |-> TRUE]
       ELSE [pandas_dtype |-> df.dtype[j],
             \* numeric_ratio > 0.8
             is_numeric |-> 10 * numeric > 8 * n,
             \* unique_ratio < 0.5 and nunique < 50
             is_categorical |-> 2 * unique < n /\ unique < 50,
             is_datetime |-> FALSE,
             is_percentage |-> 2 * Count(sample_str, LAMBDA v : Contains("%", v)) > n,
             is_currency |-> 10 * Count(sample_str, HasCurrencyMark) > 3 * n,
             \* unique_ratio > 0.9
             is_identifier |-> 10 * unique > 9 * n]

\* a finite float the model does not evaluate: Series.std() of count values
\* (the squared deviations do not fit the integers of the checker)
SampleStd(count) == [t |-> "std", s |-> "", n |-> count]

\* the statistics of the numbers of a column, each passed through float() and
\* nothing else: Series.std() divides by count - 1 and is NaN for a single value
NumericStatistics(values) ==
    IF Len(values) = 0 THEN [error |-> "Pas de donnees numeriques valides"]
    ELSE [mean |-> Frac(SumSeq(values), Len(values)),
          std |-> IF Len(values) < 2 THEN NaN ELSE SampleStd(Len(values)),
          min |-> CHOOSE v \in Range(values) : \A w \in Range(values) : v <= w,
          max |-> CHOOSE v \in Range(values) : \A w \in Range(values) : w <= v]

\* numeric_data = pd.to_numeric(df[col], errors='coerce'); the statistics skip
\* its missing values
_analyze_numeric_column(df, j) ==
    NumericStatistics(MapSeq(dropna(MapSeq(df.col[j], to_numeric)), LAMBDA c : c.n))

\* the entry of one column: numeric_analysis is added when is_numeric holds
ColumnAnalysis(column, basic_stats, data_type_analysis, numeric_analysis) ==
    IF "is_numeric" \in DOMAIN data_type_analysis /\ data_type_analysis.is_numeric
    THEN [column |-> column,
          basic_stats |-> basic_stats,
          data_type_analysis |-> data_type_analysis,
          numeric_analysis |-> numeric_analysis]
    ELSE [column |-> column,
          basic_stats |-> basic_stats,
          data_type_analysis |-> data_type_analysis]

\* the analysis of a column without any value has no 'is_numeric'
FirstKeyError(analysis) ==
    IF \E j \in DOMAIN analysis : "is_numeric" \notin DOMAIN analysis[j].data_type_analysis
    THEN Raise("'is_numeric'")
    ELSE Ok(analysis)

\* the loop of _analyze_all_columns_universal: indexing ['is_numeric'] raises
\* KeyError on the analysis of a column without any value
_analyze_all_columns_universal(df) ==
    FirstKeyError([j \in ColIdx(df) |->
                      ColumnAnalysis(df.columns[j],
                                     _get_basic_column_stats(df, j),
                                     _analyze_column_data_type(df, j),
                                     _analyze_numeric_column(df, j))])

_generate_analysis_summary(df, domain_detection) ==
    [rows |-> len(df), columns |-> ncols(df),
     estimated_domain |-> domain_detection.primary_domain,
     domain_confidence |-> domain_detection.confidence]

analyze_dataframe(dd) ==
    LET r == _reconstruct_dataframe(dd)
        df == r.value
        column_analysis == _analyze_all_columns_universal(df)
        domain_detection == _detect_business_domain(df.columns)
    IN IF r.raised
       THEN [success |-> FALSE, error |-> "Erreur analyse: " \o r.error]
       ELSE IF column_analysis.raised
       THEN [success |-> FALSE, error |-> "Erreur analyse: " \o column_analysis.error]
       ELSE [success |-> TRUE,
             column_analysis |-> column_analysis.value,
             domain_detection |-> domain_detection,
             analysis_summary |-> _generate_analysis_summary(df, domain_detection)]

\* the columns _analyze_business_metrics_universal keeps as metrics
_analyze_business_metrics_universal(df) ==
    LET kept == IndicesWhere(ncols(df), LAMBDA j :
            /\ ContainsAny(Range(services.analyzer.performance_keywords),
                           Lower(df.columns[j]))
            /\ \/ df.dtype[j] = "float64"
               \/ /\ df.dtype[j] = "object"
                  /\ \E i \in RowIdx(df) :
                        /\ notnull(df.col[j][i])
                        /\ \/ Contains("%", astype_str(df.col[j][i]))
                           \/ Contains("$", astype_str(df.col[j][i])))
    IN [identified_metrics |-> MapSeq(kept, LAMBDA j : df.columns[j])]

detect_business_patterns(dd) ==
    LET r == _reconstruct_dataframe(dd)
        df == r.value
    IN IF r.raised
       THEN [success |-> FALSE, error |-> "Erreur patterns business: " \o r.error]
       ELSE [domain_info |-> _detect_business_domain(df.columns),
             business_metrics |-> _analyze_business_metrics_universal(df)]

\* data[outlier_mask].index: the positions of the values outside
\* Q1 - 1.5 IQR .. Q3 + 1.5 IQR, none when fewer than 4 values are present
OutlierPositions(series, present) ==
    LET data == MapSeq(present, LAMBDA i : series[i].n)
        Q1 == Quantile(data, 1, 4)
        Q3 == Quantile(data, 3, 4)
        IQR == FSub(Q3, Q1)
        lower_bound == FSub(Q1, FMul(Frac(3, 2), IQR))
        upper_bound == FAdd(Q3, FMul(Frac(3, 2), IQR))
    IN SelectSeq(present, LAMBDA i :
           \/ FLess(FInt(series[i].n), lower_bound)
           \/ FLess(upper_bound, FInt(series[i].n)))

\* the same with the bounds counted among the outliers
OutlierPositionsInclusive(series, present) ==
    LET data == MapSeq(present, LAMBDA i : series[i].n)
        Q1 == Quantile(data, 1, 4)
        Q3 == Quantile(data, 3, 4)
        IQR == FSub(Q3, Q1)
        lower_bound == FSub(Q1, FMul(Frac(3, 2), IQR))
        upper_bound == FAdd(Q3, FMul(Frac(3, 2), IQR))
    IN SelectSeq(present, LAMBDA i :
           \/ ~FLess(lower_bound, FInt(series[i].n))
           \/ ~FLess(FInt(series[i].n), upper_bound))

_detect_outliers_iqr_inclusive(series) ==
    IF Count(series, notnull) < 4 THEN <<>>
    ELSE OutlierPositionsInclusive(series,
             IndicesWhere(Len(series), LAMBDA i : notnull(series[i])))

_detect_outliers_iqr(series) ==
    IF Count(series, notnull) < 4 THEN <<>>
    ELSE OutlierPositions(series,
             IndicesWhere(Len(series), LAMBDA i : notnull(series[i])))

\* len(self._detect_outliers_iqr(data))
_count_outliers(series) == Len(_detect_outliers_iqr(series))

\* the advice generate_recommendations adds per primary domain
DomainAdvice(domain) ==
    IF domain = "rental_car"
    THEN <<"Optimiser les strategies d'upselling", "Analyser les taux de downgrade">>
    ELSE IF domain = "sales"
    THEN <<"Identifier les meilleures pratiques", "Optimiser l'allocation des territoires">>
    ELSE IF domain = "hr"
    THEN <<"Analyser les patterns de retention", "Developper des programmes de formation">>
    ELSE IF domain = "finance"
    THEN <<"Optimiser l'allocation budgetaire", "Identifier les centres de couts">>
    ELSE <<>>

ErrorRecommendations ==
    <<"Erreur lors de la generation des recommandations",
      "Verifier la qualite des donnees d'entree",
      "Consulter les logs pour plus de details">>

DefaultRecommendations ==
    <<"Donnees de bonne qualite detectees",
      "Mettre en place des alertes automatiques",
      "Documenter les insights decouverts">>

generate_recommendations(dd, analysis) ==
    LET r == _reconstruct_dataframe(dd)
        df == r.value
        numeric_cols == NumericCols(df)
        metrics == analysis.business_metrics.identified_metrics
        outliers == \E k \in DOMAIN numeric_cols :
                        \* outliers_count > len(df) * 0.05
                        100 * _count_outliers(df.col[numeric_cols[k]]) > 5 * len(df)
        found ==
            (IF 10 * MissingCells(df) > len(df) * ncols(df)
             THEN <<"Ameliorer la qualite des donnees">> ELSE <<>>)
            \o (IF "domain_detection" \in DOMAIN analysis
                THEN DomainAdvice(analysis.domain_detection.primary_domain) ELSE <<>>)
            \o (IF "business_metrics" \in DOMAIN analysis /\ Len(metrics) > 3
                THEN <<"Creer un dashboard de suivi">> ELSE <<>>)
            \o (IF "business_metrics" \in DOMAIN analysis
                   /\ \E k \in DOMAIN metrics :
                        Contains("%", metrics[k]) \/ Contains("percent", Lower(metrics[k]))
                THEN <<"Etablir des benchmarks pour les metriques en pourcentage">>
                ELSE <<>>)
            \o (IF Len(numeric_cols) > 5
                THEN <<"Effectuer une analyse de correlation approfondie">> ELSE <<>>)
            \o (IF len(df) > 1000
                THEN <<"Considerer une segmentation des donnees">> ELSE <<>>)
            \o (IF outliers THEN <<"Investiguer les valeurs aberrantes">> ELSE <<>>)
            \o (IF ncols(df) > 10
                THEN <<"Prioriser les variables les plus importantes">> ELSE <<>>)
    IN IF r.raised THEN ErrorRecommendations
       ELSE IF Len(found) = 0 THEN DefaultRecommendations
       ELSE head(found, 10)


-----------------------------------------------------------------------------
(* CSVExtractor: reading and cleaning *)

\* self.na_values
na_values ==
    {"", "nan", "NaN", "null", "NULL", "None", "NONE", "-", "/", " ", "N/A", "n/a",
     "NA", "na", "#N/A", "#NULL!", "#VALUE!", "#DIV/0!", "#NAME?", "undefined",
     "UNDEFINED", "?", "??", "???"}

\* pd.read_csv(..., na_values=self.na_values, dtype=str) on the fields of the
\* file: every column holds texts, the texts of na_values are read as missing
read_csv(parsed) ==
    [columns |-> parsed.columns,
     dtype |-> [j \in DOMAIN parsed.columns |-> "object"],
     col |-> [j \in DOMAIN parsed.columns |->
                [i \in DOMAIN parsed.rows |->
                    IF parsed.rows[i][j] \in services.extractor.na_values THEN NaN
                    ELSE Str(parsed.rows[i][j])]],
     nrows |-> Len(parsed.rows)]

\* s.replace(from, to) for one character
RECURSIVE ReplaceChar(_, _, _)
ReplaceChar(s, from, to) ==
    IF s = "" THEN ""
    ELSE (IF Head(s) = from THEN to ELSE Head(s)) \o ReplaceChar(Tail(s), from, to)

\* step 1 of _clean_and_normalize_dataframe on one column name
CleanColumnName(name) == ReplaceChar(Remove(Strip(name), {"\""}), "\n", " ")

\* the rows keep[1], keep[2], ... of df
SelectRows(df, keep) ==
    [columns |-> df.columns,
     dtype |-> df.dtype,
     col |-> [j \in DOMAIN df.col |-> [k \in DOMAIN keep |-> df.col[j][keep[k]]]],
     nrows |-> Len(keep)]

\* the columns keep[1], keep[2], ... of df
SelectColumns(df, keep) ==
    [columns |-> [k \in DOMAIN keep |-> df.columns[keep[k]]],
     dtype |-> [k \in DOMAIN keep |-> df.dtype[keep[k]]],
     col |-> [k \in DOMAIN keep |-> df.col[keep[k]]],
     nrows |-> df.nrows]

RenameColumns(df) == [df EXCEPT !.columns = MapSeq(@, CleanColumnName)]

\* df.dropna(how='all')
DropEmptyRows(df) ==
    SelectRows(df, IndicesWhere(len(df), LAMBDA i :
        \E j \in ColIdx(df) : notnull(df.col[j][i])))

\* df.dropna(axis=1, how='all')
DropEmptyColumns(df) ==
    SelectColumns(df, IndicesWhere(ncols(df), LAMBDA j :
        \E i \in RowIdx(df) : notnull(df.col[j][i])))

\* astype(str).str.strip() followed by replace('nan', np.nan) on one cell
StripValue(c) ==
    IF Strip(astype_str(c)) = "nan" THEN NaN ELSE Str(Strip(astype_str(c)))

\* step 4 of _clean_and_normalize_dataframe; df[col] is a DataFrame, without
\* dtype, when two columns bear the same name
StripValues(df) ==
    IF Cardinality(Range(df.columns)) < ncols(df)
    THEN Raise("'DataFrame' object has no attribute 'dtype'")
    ELSE Ok([df EXCEPT !.col = [j \in DOMAIN df.col |->
                IF df.dtype[j] = "object" THEN MapSeq(df.col[j], StripValue)
                ELSE df.col[j]]])

_clean_and_normalize_dataframe(df) ==
    StripValues(DropEmptyColumns(DropEmptyRows(RenameColumns(df))))


-----------------------------------------------------------------------------
(* CSVExtractor: the detection rules of type inference *)

\* Series.astype(str)
AsTexts(series) == MapSeq(series, astype_str)

\* percent_count / len(series) > 0.5
_is_percentage_column(series) ==
    2 * Count(AsTexts(series), LAMBDA v :
            ContainsAny({"%", "percent", "pct"}, Lower(v))) > Len(series)

\* currency_count / len(series) > 0.3
_is_currency_column(series) ==
    10 * Count(AsTexts(series), HasCurrencyMark) > 3 * Len(series)

\* float(str(val).replace(',', '').replace(' ', '').replace('€', '').replace('$', ''))
FloatAfterCleaning(c) == ParseFloat(Remove(astype_str(c), {",", " ", "$"})).ok

\* numeric_count / min(100, len(series)) > 0.8
_is_numeric_column(series) ==
    10 * Count(head(series, 100), FloatAfterCleaning) > 8 * Min(100, Len(series))

\* self.date_patterns: d stands for one digit, any other character for itself
date_patterns == <<"dddd-dd-dd", "dd/dd/dddd", "dd.dd.dddd", "dd-dd-dddd">>

\* the pattern matches the text from position i on
MatchesAt(pattern, s, i) ==
    /\ i + Len(pattern) - 1 <= Len(s)
    /\ \A k \in 1..Len(pattern) :
          IF Char(pattern, k) = "d" THEN Char(s, i + k - 1) \in DigitChars
          ELSE Char(s, i + k - 1) = Char(pattern, k)

\* re.search(pattern, s)
Search(pattern, s) == \E i \in 1..Len(s) : MatchesAt(pattern, s, i)

\* date_count / len(series) > 0.7, date_count summed over the four patterns
_is_date_column(series) ==
    10 * SumSeq(MapSeq(services.extractor.date_patterns, LAMBDA pattern :
                   Count(AsTexts(series), LAMBDA v : Search(pattern, v))))
        > 7 * Len(series)

bool_values == {"true", "false", "1", "0", "yes", "no", "y", "n", "oui", "non"}

\* bool_count / len(series) > 0.8
_is_boolean_column(series) ==
    10 * Count(AsTexts(series), LAMBDA v : Lower(v) \in bool_values) > 8 * Len(series)

\* the four id_patterns: \d{3,}, [A-Z]{2,}\d+, \d+[A-Z]+, [A-Z]+\d+[A-Z]+
DigitRun(s) == \E i \in 1..(Len(s) - 2) : IsDigits(SubSeq(s, i, i + 2))
LettersThenDigit(s) ==
    \E i \in 1..(Len(s) - 2) :
        /\ Char(s, i) \in UpperChars /\ Char(s, i + 1) \in UpperChars
        /\ Char(s, i + 2) \in DigitChars
DigitThenLetter(s) ==
    \E i \in 1..(Len(s) - 1) : Char(s, i) \in DigitChars /\ Char(s, i + 1) \in UpperChars
DigitsBetweenLetters(s) ==
    \E i \in 1..Len(s) : \E k \in (i + 2)..Len(s) :
        /\ Char(s, i) \in UpperChars /\ Char(s, k) \in UpperChars
        /\ IsDigits(SubSeq(s, i + 1, k - 1))

\* sum(sample_str.str.contains(pattern).any() for pattern in id_patterns)
PatternMatches(texts) ==
    (IF \E i \in DOMAIN texts : DigitRun(texts[i]) THEN 1 ELSE 0)
    + (IF \E i \in DOMAIN texts : LettersThenDigit(texts[i]) THEN 1 ELSE 0)
    + (IF \E i \in DOMAIN texts : DigitThenLetter(texts[i]) THEN 1 ELSE 0)
    + (IF \E i \in DOMAIN texts : DigitsBetweenLetters(texts[i]) THEN 1 ELSE 0)

\* uniqueness > 0.9 or pattern_matches >= 2
_is_identifier_column(series) ==
    \/ 10 * nunique(series) > 9 * Len(series)
    \/ PatternMatches(AsTexts(series)) >= 2

\* unique_ratio < 0.5 and series.nunique() < 50
_is_category_column(series) ==
    2 * nunique(series) < Len(series) /\ nunique(series) < 50


-----------------------------------------------------------------------------
(* CSVExtractor: type inference, missing values, the extraction result *)

\* the library call that raises during a request: the site of the call in
\* _auto_detect_and_convert_types and the position of the column it works on
NoFault == [site |-> "none", column |-> 0]
FaultSites == {"detect", "currency", "numeric", "datetime", "boolean"}

\* col_info
ColumnInfo(detected_type, conversion_success, special_format) ==
    [original_type |-> "string", detected_type |-> detected_type,
     conversion_success |-> conversion_success, special_format |-> special_format]

\* what the loop body leaves for one column, or the exception that leaves it
Inferred(info, values, dtype) ==
    [raised |-> FALSE, error |-> "", info |-> info, values |-> values, dtype |-> dtype]
InferenceRaised(error) ==
    [raised |-> TRUE, error |-> error, info |-> ColumnInfo("string", FALSE, "None"),
     values |-> <<>>, dtype |-> "object"]

\* the dtype pandas gives converted numbers: integers without a missing value
\* make int64
NumericDtype(texts, values) ==
    IF /\ \A i \in DOMAIN values : notnull(values[i])
       /\ \A i \in DOMAIN texts : ~Contains(".", texts[i])
    THEN "int64" ELSE "float64"

\* series.astype(str).str.replace(r'[$€£¥,]', '').str.replace(' ', '')
CurrencyTexts(series) == MapSeq(series, LAMBDA c : Remove(astype_str(c), {"$", ",", " "}))

\* ... .apply(lambda x: pd.to_numeric(x, errors='coerce'))
_convert_currency_to_numeric(series) ==
    MapSeq(CurrencyTexts(series), LAMBDA v : to_numeric(Str(v)))

\* the Timestamp cell of pd.to_datetime(..., errors='coerce')
ToTimestamp(c) == IF to_datetime(c).ok THEN Date(to_datetime(c).day) ELSE NaTCell

\* Series.map({'True': True, 'False': False, '1': True, '0': False})
MapBoolean(c) ==
    IF c.t = "str" /\ c.s \in {"True", "1"} THEN Bool(TRUE)
    ELSE IF c.t = "str" /\ c.s \in {"False", "0"} THEN Bool(FALSE)
    ELSE NaN

ConvertedCurrency(series) ==
    Inferred(ColumnInfo("currency", TRUE, "currency"),
             _convert_currency_to_numeric(series),
             NumericDtype(CurrencyTexts(series), _convert_currency_to_numeric(series)))

ConvertedNumeric(series) ==
    Inferred(ColumnInfo("numeric", TRUE, "None"),
             MapSeq(series, to_numeric),
             NumericDtype(AsTexts(series), MapSeq(series, to_numeric)))

ConvertedDatetime(series) ==
    Inferred(ColumnInfo("datetime", TRUE, "None"),
             MapSeq(series, ToTimestamp), "datetime64[ns]")

ConvertedBoolean(series) ==
    Inferred(ColumnInfo("boolean", TRUE, "None"),
             MapSeq(series, MapBoolean),
             InferDtype(MapSeq(series, MapBoolean)))

\* a conversion inside try/except: the column is left as it was
Unconverted(detected_type, series) ==
    Inferred(ColumnInfo(detected_type, FALSE, "None"), series, "object")

\* the last branch: the column stays a string, with its special format
StringColumn(series, sample) ==
    Inferred(ColumnInfo("string", FALSE,
                        IF _is_identifier_column(sample) THEN "identifier"
                        ELSE IF _is_category_column(sample) THEN "category"
                        ELSE "None"),
             series, "object")

\* the if/elif chain of the loop for a column with the non-missing values sample
InferFromSample(series, sample, site) ==
    IF Len(sample) = 0 THEN Unconverted("string", series)
    ELSE IF site = "detect" THEN InferenceRaised("detection failed")
    ELSE IF _is_percentage_column(sample)
    THEN Inferred(ColumnInfo("percentage", FALSE, "percentage"), series, "object")
    ELSE IF _is_currency_column(sample)
    THEN (IF site = "currency" THEN InferenceRaised("conversion failed")
          ELSE ConvertedCurrency(series))
    ELSE IF _is_numeric_column(sample)
    THEN (IF site = "numeric" THEN Unconverted("numeric", series)
          ELSE ConvertedNumeric(series))
    ELSE IF _is_date_column(sample)
    THEN (IF site = "datetime" THEN Unconverted("datetime", series)
          ELSE ConvertedDatetime(series))
    ELSE IF _is_boolean_column(sample)
    THEN (IF site = "boolean" THEN Unconverted("boolean", series)
          ELSE ConvertedBoolean(series))
    ELSE StringColumn(series, sample)

\* the body of the loop of _auto_detect_and_convert_types for one column
InferColumn(series, site) == InferFromSample(series, dropna(series), site)

\* the loop with `continue` ahead of the record of a column without any value
WithInferredSkippingEmpty(df, inferred) ==
    IF \E j \in DOMAIN inferred : inferred[j].raised
    THEN Raise(inferred[CHOOSE j \in DOMAIN inferred : inferred[j].raised].error)
    ELSE Ok([df |-> [df EXCEPT !.col = [j \in DOMAIN inferred |-> inferred[j].values],
                               !.dtype = [j \in DOMAIN inferred |-> inferred[j].dtype]],
             type_info |-> MapSeq(IndicesWhere(Len(inferred), LAMBDA j :
                                      dropna(df.col[j]) # <<>>),
                                  LAMBDA j : inferred[j].info)])

\* df_converted and type_info once every column went through the loop
WithInferred(df, inferred) ==
    IF \E j \in DOMAIN inferred : inferred[j].raised
    THEN Raise(inferred[CHOOSE j \in DOMAIN inferred : inferred[j].raised].error)
    ELSE Ok([df |-> [df EXCEPT !.col = [j \in DOMAIN inferred |-> inferred[j].values],
                               !.dtype = [j \in DOMAIN inferred |-> inferred[j].dtype]],
             type_info |-> [j \in DOMAIN inferred |-> inferred[j].info]])

_auto_detect_and_convert_types(df, injected) ==
    WithInferred(df, [j \in ColIdx(df) |->
        InferColumn(df.col[j], IF injected.column = j THEN injected.site ELSE "none")])

\* [f"Inconnu_{col}_{i}" for i in range(mask.sum())] assigned to the missing cells
FillUnknown(name, series) ==
    [i \in DOMAIN series |->
        IF isnull(series[i])
        THEN Str("Inconnu_" \o name \o "_" \o NatToStr(NullCount(SubSeq(series, 1, i - 1))))
        ELSE series[i]]

identifier_keywords == {"id", "branch", "agent", "code", "ref", "name", "entity"}

\* the body of the loop of _handle_missing_values_smart for one column
HandleMissing(name, series, dtype) ==
    IF 10 * NullCount(series) > 9 * Len(series) THEN [values |-> series, dtype |-> dtype]
    ELSE IF ContainsAny(identifier_keywords, Lower(name))
    THEN (IF NullCount(series) > 0
          THEN [values |-> FillUnknown(name, series), dtype |-> "object"]
          ELSE [values |-> series, dtype |-> dtype])
    ELSE IF dtype \in {"float64", "int64"} THEN [values |-> series, dtype |-> dtype]
    ELSE IF dtype = "object"
    THEN [values |-> MapSeq(series, LAMBDA c : IF isnull(c) THEN Str("Non specifie") ELSE c),
          dtype |-> dtype]
    ELSE [values |-> series, dtype |-> dtype]

_handle_missing_values_smart(df) ==
    [df EXCEPT
        !.col = [j \in DOMAIN df.col |->
                    HandleMissing(df.columns[j], df.col[j], df.dtype[j]).values],
        !.dtype = [j \in DOMAIN df.col |->
                    HandleMissing(df.columns[j], df.col[j], df.dtype[j]).dtype]]

\* the calendar date of a day count, as <<year, month, day>>
CivilFromDays(day) ==
    LET z == day + 719468
        era == z \div 146097
        doe == z - era * 146097
        yoe == (doe - doe \div 1460 + doe \div 36524 - doe \div 146096) \div 365
        doy == doe - (365 * yoe + yoe \div 4 - yoe \div 100)
        mp == (5 * doy + 2) \div 153
        m == IF mp < 10 THEN mp + 3 ELSE mp - 9
    IN <<yoe + era * 400 + (IF m <= 2 THEN 1 ELSE 0), m, doy - (153 * mp + 2) \div 5 + 1>>

\* a number written with at least `width` digits
Padded(n, width) ==
    IF Len(NatToStr(n)) >= width THEN NatToStr(n)
    ELSE SubSeq("0000", 1, width - Len(NatToStr(n))) \o NatToStr(n)

\* Timestamp.strftime('%Y-%m-%d')
FormatDate(ymd) == Padded(ymd[1], 4) \o "-" \o Padded(ymd[2], 2) \o "-" \o Padded(ymd[3], 2)

\* one cell of a column on its way to JSON: dates are written out, the missing
\* value of a numeric column becomes None
JsonCell(c, dtype) ==
    IF dtype = "datetime64[ns]"
    THEN (IF c.t = "date" THEN Str(FormatDate(CivilFromDays(c.n))) ELSE NaN)
    ELSE IF dtype \in {"float64", "int64"} /\ isnull(c) THEN None
    ELSE c

\* data (to_dict('records'), a row per record), columns and dtypes
_prepare_dataframe_for_json(df) ==
    [data |-> [i \in RowIdx(df) |->
                  [j \in ColIdx(df) |-> JsonCell(df.col[j][i], df.dtype[j])]],
     columns |-> df.columns,
     dtypes |-> df.dtype]

\* the entries of the metadata the pipeline and its callers read
_generate_rich_metadata(df, filename, encoding, type_info) ==
    [filename |-> filename,
     shape |-> [rows |-> len(df), columns |-> ncols(df)],
     columns |-> df.columns,
     data_types |-> [j \in DOMAIN type_info |-> type_info[j].detected_type],
     special_formats |-> [j \in DOMAIN type_info |-> type_info[j].special_format],
     missing_data |-> [j \in ColIdx(df) |-> NullCount(df.col[j])],
     encoding |-> encoding]


-----------------------------------------------------------------------------
(* CSVExtractor.extract_csv *)

(* The bytes of an upload are kept as what the libraries make of them: their  *)
(* number, the answer of chardet.detect, the codecs that decode them, and the *)
(* fields pd.read_csv parses from them (or its failure).                      *)

fallback_encodings == <<"utf-8", "iso-8859-1", "cp1252", "utf-16">>

\* the encodings of the fallback loop that decode the content, in loop order
DecodingFallbacks(content) ==
    SelectSeq(fallback_encodings, LAMBDA e : e \in content.decodes)

\* chardet's answer unless its confidence is below 0.7 and a fallback decodes;
\* encoding.lower() on the answer None raises, and the handler returns 'utf-8'
_detect_encoding(content) ==
    IF ~content.chardet.confident /\ Len(DecodingFallbacks(content)) > 0
    THEN DecodingFallbacks(content)[1]
    ELSE IF content.chardet.encoding = "None" THEN "utf-8"
    ELSE Lower(content.chardet.encoding)

\* the result of the except clause of extract_csv
ExtractionFailure(error, filename) ==
    [success |-> FALSE, error |-> "Erreur extraction: " \o error, filename |-> filename]

\* steps 7 to 10 and the result of extract_csv
Extracted(df, type_info, filename, encoding) ==
    [success |-> TRUE,
     dataframe_data |-> _prepare_dataframe_for_json(df),
     metadata |-> _generate_rich_metadata(df, filename, encoding, type_info),
     extraction_info |-> [encoding |-> encoding, type_conversions |-> type_info]]

\* step 6 done: typed is the outcome of _auto_detect_and_convert_types
ExtractTyped(typed, filename, encoding) ==
    IF typed.raised THEN ExtractionFailure(typed.error, filename)
    ELSE Extracted(_handle_missing_values_smart(typed.value.df),
                   typed.value.type_info, filename, encoding)

\* step 5 done: cleaned is the outcome of _clean_and_normalize_dataframe
ExtractCleaned(cleaned, filename, encoding, injected) ==
    IF cleaned.raised THEN ExtractionFailure(cleaned.error, filename)
    ELSE ExtractTyped(_auto_detect_and_convert_types(cleaned.value, injected),
                      filename, encoding)

\* steps 2 to 4: decoding and _read_csv_smart, whose two attempts both fail on
\* bytes without any field
ExtractDecoded(content, filename, encoding, injected) ==
    IF encoding \notin content.decodes
    THEN ExtractionFailure("'" \o encoding \o "' codec can't decode", filename)
    ELSE IF content.parsed.error
    THEN ExtractionFailure("No columns to parse from file", filename)
    ELSE ExtractCleaned(_clean_and_normalize_dataframe(read_csv(content.parsed)),
                        filename, encoding, injected)

extract_csv(content, filename, injected) ==
    ExtractDecoded(content, filename, _detect_encoding(content), injected)


-----------------------------------------------------------------------------
(* The module-level service objects of main.py, as their constructors leave *)
(* them; the methods read their fields through `self`                       *)

\* self.quality_thresholds, in hundredths
quality_thresholds ==
    [completeness |-> CompletenessThreshold, consistency |-> 90,
     validity |-> 85, accuracy |-> 80]

\* extractor = CSVExtractor(), analyzer = DataAnalyzer(),
\* classifier = QueryClassifier(), quality_checker = QualityChecker()
ServiceInstances ==
    [extractor |-> [ready |-> TRUE, date_patterns |-> date_patterns,
                    na_values |-> na_values],
     analyzer |-> [ready |-> TRUE, business_domains |-> business_domains,
                   performance_keywords |-> performance_keywords,
                   entity_keywords |-> entity_keywords],
     classifier |-> [ready |-> TRUE],
     quality_checker |-> [ready |-> TRUE, quality_thresholds |-> quality_thresholds]]

\* no request of this kind is in progress
NoRequests == <<>>

-----------------------------------------------------------------------------
(* The typed tables handed to the stages *)

\* the first n elements of the endless repetition of pattern
Cycle(pattern, n) == [i \in 1..n |-> pattern[((i - 1) % Len(pattern)) + 1]]

\* the columns the model builds typed tables from: a name and the cells the
\* column repeats
TypedColumns ==
    <<[name |-> "price",         cells |-> <<Num(1000), Num(2550), None, Num(99900)>>],
      [name |-> "amount",        cells |-> <<Num(500), Num(500), Num(700)>>],
      [name |-> "notes",         cells |-> <<None>>],
      [name |-> "gap",           cells |-> <<NaN>>],
      [name |-> "label",         cells |-> <<Str("a"), Str("b"), Str("a")>>],
      [name |-> "percent score", cells |-> <<Str("5%"), Str("12%"), Str("n/a")>>],
      [name |-> "date",          cells |-> <<Str("2026-10-30"), Str("2024-01-01"), Str("x")>>],
      [name |-> "agent id",      cells |-> <<Str("a"), Str("a"), Str("a")>>],
      [name |-> "count",         cells |-> <<Num(0 - 100), Num(300)>>]>>

\* the increasing index lists of at most k of the positions from..n
RECURSIVE Picks(_, _, _)
Picks(from, k, n) ==
    IF k = 0 THEN {<<>>}
    ELSE {<<>>} \cup
         UNION {{<<j>> \o rest : rest \in Picks(j + 1, k - 1, n)} : j \in from..n}

\* dataframe_data: {'data': records, 'columns': names}
TypedTable(pick, n) ==
    [columns |-> [k \in DOMAIN pick |-> TypedColumns[pick[k]].name],
     data |-> [i \in 1..n |->
                  [k \in DOMAIN pick |-> Cycle(TypedColumns[pick[k]].cells, n)[i]]]]

\* tables of 1..MaxCols columns and 1..MaxRows rows, and a table without rows
TypedTables ==
    {TypedTable(pick, n) : pick \in Picks(1, MaxCols, Len(TypedColumns)) \ {<<>>}, n \in 1..MaxRows}
    \cup {TypedTable(<<5>>, 0)}

\* 2026-11-02 and a day more than a year later, in days since 1970-01-01
Clocks == {DaysFromCivil(2026, 11, 2), DaysFromCivil(2028, 1, 1)}


-----------------------------------------------------------------------------
(* main.py: the responses of /extract *)

NoResponse == [kind |-> "none"]

\* raise HTTPException(status_code, detail)
HTTPError(status_code, detail) ==
    [kind |-> "http_error", status_code |-> status_code, detail |-> detail]

\* the same handler returning the extraction it holds together with the error
ErrorResponseKeepingData(error, extraction) ==
    [kind |-> "body", success |-> TRUE, data |-> [extraction |-> extraction],
     error |-> "Erreur lors du traitement: " \o error]

\* the `except Exception` handler of extract_and_analyze
ErrorResponse(error, extraction) ==
    [kind |-> "body", success |-> FALSE, data |-> [x \in {} |-> x],
     error |-> "Erreur lors du traitement: " \o error]

\* the ExtractionResponse returned after the last stage
SuccessResponse(response_data) ==
    [kind |-> "body", success |-> TRUE, data |-> response_data, error |-> "null"]

Unset == [unset |-> TRUE]

StageNames ==
    {"analyze_dataframe", "detect_business_patterns", "check_quality",
     "generate_recommendations"}

Called(stage) == \E k \in DOMAIN stage_log : stage_log[k] = stage

-----------------------------------------------------------------------------
(* The four stage calls of one request, taken in any order *)

CoreInit ==
    /\ services = ServiceInstances
    /\ requests = NoRequests
    /\ text_content = <<>>
    /\ csv_params = Unset
    /\ cleaned_df = Unset
    /\ typed_df = Unset
    /\ numeric_series = <<>>
    /\ outlier_index = Unset
    /\ handled_df = Unset
    /\ dataframe_data \in TypedTables
    /\ clock \in Clocks
    /\ extraction_result = [success |-> TRUE, dataframe_data |-> dataframe_data]
    /\ metadata = [filename |-> "data.csv"]
    /\ pc = "stages"
    /\ stage_log = <<>>
    /\ analysis_result = Unset
    /\ business_patterns = Unset
    /\ quality_result = Unset
    /\ recommendations = <<>>
    /\ response = NoResponse
    /\ file = Unset
    /\ invoked = <<>>
    /\ quality_report = Unset
    /\ overall_score = FInt(0)
    /\ fault = NoFault
    /\ detected_domain = Unset

\* main.py line 221
AnalyzeDataframe ==
    /\ pc = "stages" /\ ~Called("analyze_dataframe")
    /\ analysis_result' = analyze_dataframe(dataframe_data)
    /\ stage_log' = Append(stage_log, "analyze_dataframe")
    /\ UNCHANGED <<file, pc, response, extraction_result, invoked, dataframe_data,
                   metadata, business_patterns, quality_result, recommendations,
                   quality_report, overall_score, clock, fault, detected_domain,
                   services, requests,
                   text_content, csv_params,
                   cleaned_df, typed_df, numeric_series, outlier_index, handled_df>>

\* main.py line 227
DetectBusinessPatterns ==
    /\ pc = "stages" /\ ~Called("detect_business_patterns")
    /\ business_patterns' = detect_business_patterns(dataframe_data)
    /\ stage_log' = Append(stage_log, "detect_business_patterns")
    /\ UNCHANGED <<file, pc, response, extraction_result, invoked, dataframe_data,
                   metadata, analysis_result, quality_result, recommendations,
                   quality_report, overall_score, clock, fault, detected_domain,
                   services, requests,
                   text_content, csv_params,
                   cleaned_df, typed_df, numeric_series, outlier_index, handled_df>>

\* the quality stage also dropping the first row of the table it was given
CheckQualityDroppingRow ==
    /\ pc = "stages" /\ ~Called("check_quality")
    /\ quality_result' = check_quality(dataframe_data, clock)
    /\ dataframe_data' = [dataframe_data EXCEPT !.data = Tail(@)]
    /\ stage_log' = Append(stage_log, "check_quality")
    /\ UNCHANGED <<file, pc, response, extraction_result, invoked,
                   metadata, analysis_result, business_patterns, recommendations,
                   quality_report, overall_score, clock, fault, detected_domain,
                   services, requests,
                   text_content, csv_params,
                   cleaned_df, typed_df, numeric_series, outlier_index, handled_df>>

\* main.py line 233
CheckQuality ==
    /\ pc = "stages" /\ ~Called("check_quality")
    /\ quality_result' = check_quality(dataframe_data, clock)
    /\ stage_log' = Append(stage_log, "check_quality")
    /\ UNCHANGED <<file, pc, response, extraction_result, invoked, dataframe_data,
                   metadata, analysis_result, business_patterns, recommendations,
                   quality_report, overall_score, clock, fault, detected_domain,
                   services, requests,
                   text_content, csv_params,
                   cleaned_df, typed_df, numeric_series, outlier_index, handled_df>>

\* main.py line 239: the call reads the handler's local business_patterns, which
\* is unbound until line 227 has run; the NameError ends the request in the
\* `except Exception` handler
GenerateRecommendations ==
    /\ pc = "stages" /\ ~Called("generate_recommendations")
    /\ stage_log' = Append(stage_log, "generate_recommendations")
    /\ IF Called("detect_business_patterns")
       THEN /\ recommendations' = generate_recommendations(dataframe_data, business_patterns)
            /\ UNCHANGED <<pc, response>>
       ELSE /\ pc' = "done"
            /\ response' = ErrorResponse("name 'business_patterns' is not defined",
                                         extraction_result)
            /\ UNCHANGED recommendations
    /\ UNCHANGED <<file, extraction_result, invoked, dataframe_data, metadata,
                   analysis_result, business_patterns, quality_result,
                   quality_report, overall_score, clock, fault, detected_domain,
                   services, requests,
                   text_content, csv_params,
                   cleaned_df, typed_df, numeric_series, outlier_index, handled_df>>

\* response_data without its last entry
ResponseDataWithoutRecommendations(extraction, analysis, quality, patterns, recs) ==
    [extraction |-> extraction, analysis |-> analysis, quality |-> quality,
     business_patterns |-> patterns]

\* main.py lines 248-273: response_data and the successful response
ResponseData(extraction, analysis, quality, patterns, recs) ==
    [extraction |-> extraction, analysis |-> analysis, quality |-> quality,
     business_patterns |-> patterns, recommendations |-> recs]

\* main.py lines 88-93: raises on a result that is empty or no dict, and reads
\* nothing inside it
validate_analysis_result(result) ==
    IF DOMAIN result = {}
    THEN Raise("Resultat d'analyse invalide")
    ELSE Ok(result)

Assemble ==
    /\ pc = "stages" /\ \A stage \in StageNames : Called(stage)
    /\ ~validate_analysis_result(analysis_result).raised
    /\ ~validate_analysis_result(business_patterns).raised
    /\ ~validate_analysis_result(quality_result).raised
    /\ pc' = "done"
    /\ response' = SuccessResponse(ResponseData(extraction_result, analysis_result,
                        quality_result, business_patterns, recommendations))
    /\ UNCHANGED <<file, extraction_result, invoked, dataframe_data, metadata,
                   analysis_result, business_patterns, quality_result, recommendations,
                   stage_log, quality_report, overall_score, clock, fault, detected_domain,
                   services, requests,
                   text_content, csv_params,
                   cleaned_df, typed_df, numeric_series, outlier_index, handled_df>>

CoreNext ==
    \/ AnalyzeDataframe
    \/ DetectBusinessPatterns
    \/ CheckQuality
    \/ GenerateRecommendations
    \/ Assemble

SpecCore == CoreInit /\ [][CoreNext]_vars

\* the table check_quality works on in this request
QualityTable == _get_dataframe(dataframe_data)

\* the dimensions whose computation raises on that table
RaisedDimensions ==
    {d \in Range(DimensionOrder) : Dimensions(QualityTable, clock)[d].raised}

\* C2: when the computation of one dimension raises inside check_quality, only
\* that dimension reports score 0 with an explanatory issue and every other
\* dimension keeps the score computed for it
DimensionFailureIsLocal ==
    (Called("check_quality") /\ ~empty(QualityTable)) =>
        \A d \in Range(DimensionOrder) :
            IF d \in RaisedDimensions
            THEN /\ quality_result[d].score = FInt(0)
                 /\ Len(quality_result[d].issues) > 0
            ELSE quality_result[d].score = Dimensions(QualityTable, clock)[d].score

\* the columns of the table without any non-missing value
ValuelessColumns ==
    {j \in DOMAIN dataframe_data.columns :
        \A i \in DOMAIN dataframe_data.data : isnull(dataframe_data.data[i][j])}

\* C4: analyze_dataframe on a table with rows succeeds whatever its columns
\* hold, returns one column analysis per column, and marks a column without any
\* value as empty
ColumnFailureIsLocal ==
    (Called("analyze_dataframe") /\ Len(dataframe_data.data) > 0) =>
        /\ analysis_result.success
        /\ DOMAIN analysis_result.column_analysis = DOMAIN dataframe_data.columns
        /\ \A j \in ValuelessColumns :
              "is_empty" \in DOMAIN analysis_result.column_analysis[j].data_type_analysis

\* C6: the overall score of every report of check_quality lies within [0, 100],
\* and it is 0 when no dimension produced a score (empty table, or a dimension
\* raised)
OverallScoreInRange ==
    Called("check_quality") =>
        /\ FLeq(FInt(0), quality_result.overall_score)
        /\ FLeq(quality_result.overall_score, FInt(100))
        /\ (empty(QualityTable) \/ RaisedDimensions # {}) =>
               quality_result.overall_score = FInt(0)

\* check_quality has returned the report of a table without rows
EmptyTableScored ==
    /\ Called("check_quality")
    /\ empty(QualityTable)
    /\ quality_result.overall_score = FInt(0)

\* the profile the handler assembles when it runs the stages in source order
SequentialProfile ==
    ResponseData(extraction_result,
                 analyze_dataframe(extraction_result.dataframe_data),
                 check_quality(extraction_result.dataframe_data, clock),
                 detect_business_patterns(extraction_result.dataframe_data),
                 generate_recommendations(extraction_result.dataframe_data,
                     detect_business_patterns(extraction_result.dataframe_data)))

\* the position of a stage in the execution order
Position(stage) == CHOOSE k \in DOMAIN stage_log : stage_log[k] = stage

PatternsBeforeRecommendations ==
    /\ Called("detect_business_patterns")
    /\ Called("generate_recommendations")
    /\ Position("detect_business_patterns") < Position("generate_recommendations")

-----------------------------------------------------------------------------
(* Domain classification as a function of the column names *)

\* the number of column names of the tables classified
MaxNames == 3

\* column names the classified headers are built from
ColumnNames ==
    <<"price", "amount", "cost", "budget", "label", "agent", "order", "score">>

\* the headers of at most MaxNames names, the header without column included
Headers ==
    {[k \in DOMAIN pick |-> ColumnNames[pick[k]]] :
        pick \in Picks(1, MaxNames, Len(ColumnNames))}

DomainInit ==
    /\ services = ServiceInstances
    /\ requests = NoRequests
    /\ text_content = <<>>
    /\ csv_params = Unset
    /\ cleaned_df = Unset
    /\ typed_df = Unset
    /\ numeric_series = <<>>
    /\ outlier_index = Unset
    /\ handled_df = Unset
    /\ dataframe_data \in {[columns |-> header, data |-> <<>>] : header \in Headers}
    /\ pc = "classify"
    /\ detected_domain = Unset
    /\ clock = DaysFromCivil(2026, 11, 2)
    /\ extraction_result = Unset
    /\ metadata = [filename |-> "data.csv"]
    /\ stage_log = <<>>
    /\ analysis_result = Unset
    /\ business_patterns = Unset
    /\ quality_result = Unset
    /\ recommendations = <<>>
    /\ response = NoResponse
    /\ file = Unset
    /\ invoked = <<>>
    /\ quality_report = Unset
    /\ overall_score = FInt(0)
    /\ fault = NoFault

\* analyzer.py line 96 and line 158: self._detect_business_domain(df, metadata)
DetectBusinessDomain ==
    /\ pc = "classify"
    /\ detected_domain' = _detect_business_domain(dataframe_data.columns)
    /\ pc' = "classified"
    /\ UNCHANGED <<file, response, extraction_result, invoked, dataframe_data,
                   metadata, analysis_result, business_patterns, quality_result,
                   recommendations, stage_log, quality_report, overall_score,
                   clock, fault, services, requests,
                   text_content, csv_params,
                   cleaned_df, typed_df, numeric_series, outlier_index, handled_df>>

DomainNext == DetectBusinessDomain

SpecDomain == DomainInit /\ [][DomainNext]_vars

\* the words of a vocabulary found in the text, counted position by position
Matched(words, text) == Cardinality({k \in DOMAIN words : Contains(words[k], text)})

\* 2 x keywords matched + 3 x metric words matched + 2 x entity words matched
PointsOf(domain, text) ==
    2 * Matched(business_domains[domain].keywords, text)
    + 3 * Matched(business_domains[domain].metrics, text)
    + 2 * Matched(business_domains[domain].entities, text)

ColumnsText == Lower(Join(dataframe_data.columns, " "))

TopPoints == SetMax({PointsOf(DomainOrder[k], ColumnsText) : k \in DOMAIN DomainOrder})

\* the position in the catalog of the first domain holding the highest score
FirstTop ==
    SetMin({k \in DOMAIN DomainOrder : PointsOf(DomainOrder[k], ColumnsText) = TopPoints})

\* C8: the primary domain is the domain with the highest score, the one declared
\* first in the catalog among those that tie for it, and "unknown" with
\* confidence 0 when no domain scores above 0
PrimaryDomainIsFirstHighest ==
    pc = "classified" =>
        IF TopPoints = 0
        THEN /\ detected_domain.primary_domain = "unknown"
             /\ detected_domain.confidence = 0
        ELSE detected_domain.primary_domain = DomainOrder[FirstTop]

\* a header on which two domains tie for the highest score has been classified
PrimaryDomainTieReached ==
    /\ pc = "classified"
    /\ TopPoints > 0
    /\ \E k \in DOMAIN DomainOrder :
          /\ k > FirstTop
          /\ PointsOf(DomainOrder[k], ColumnsText) = TopPoints
    /\ detected_domain.primary_domain = DomainOrder[FirstTop]

\* the entries of all_domain_scores for a domain
EntriesOf(domain) ==
    SelectSeq(detected_domain.all_domain_scores, LAMBDA e : e.domain = domain)

\* C9: every domain of the catalog scores 2 x keywords + 3 x metric words +
\* 2 x entity words matched in the lowercase concatenation of the column names,
\* its confidence is min(score / 10, 1.0) (here in tenths), within [0, 1]
DomainScoreFormula ==
    pc = "classified" =>
        \A k \in DOMAIN DomainOrder :
            LET points == PointsOf(DomainOrder[k], ColumnsText)
                entries == EntriesOf(DomainOrder[k])
            IN IF points = 0 THEN Len(entries) = 0
               ELSE /\ Len(entries) = 1
                    /\ entries[1].score = points
                    /\ entries[1].confidence = (IF points < 10 THEN points ELSE 10)
                    /\ entries[1].confidence \in 0..10

\* a domain scoring more than 10 points has been reported with confidence 1.0
ConfidenceCapReached ==
    /\ pc = "classified"
    /\ \E k \in DOMAIN detected_domain.all_domain_scores :
          /\ detected_domain.all_domain_scores[k].score > 10
          /\ detected_domain.all_domain_scores[k].confidence = 10

-----------------------------------------------------------------------------
(* The overall score as a function of the report it is computed from *)

\* the scores a dimension takes in these reports are the multiples of
\* 100 / ScoreSteps
ScoreSteps == 1

\* what a report can hold for one dimension: nothing, an entry without a score,
\* or an entry with a score
DimensionEntries ==
    {[present |-> FALSE, entry |-> [issues |-> <<>>]]}
    \cup {[present |-> TRUE, entry |-> [issues |-> <<"Erreur">>]]}
    \cup {[present |-> TRUE, entry |-> Entry(Frac(100 * k, ScoreSteps), <<>>)] :
             k \in 0..ScoreSteps}

\* the report holding the entries chosen for the dimensions
PartialReport(choice) ==
    [d \in {e \in Range(DimensionOrder) : choice[e].present} |-> choice[d].entry]

PartialReports ==
    {PartialReport(choice) : choice \in [Range(DimensionOrder) -> DimensionEntries]}

ScoreInit ==
    /\ services = ServiceInstances
    /\ requests = NoRequests
    /\ text_content = <<>>
    /\ csv_params = Unset
    /\ cleaned_df = Unset
    /\ typed_df = Unset
    /\ numeric_series = <<>>
    /\ outlier_index = Unset
    /\ handled_df = Unset
    /\ quality_report \in PartialReports
    /\ overall_score = FInt(0)
    /\ pc = "score"
    /\ dataframe_data = Unset
    /\ detected_domain = Unset
    /\ clock = DaysFromCivil(2026, 11, 2)
    /\ extraction_result = Unset
    /\ metadata = [filename |-> "data.csv"]
    /\ stage_log = <<>>
    /\ analysis_result = Unset
    /\ business_patterns = Unset
    /\ quality_result = Unset
    /\ recommendations = <<>>
    /\ response = NoResponse
    /\ file = Unset
    /\ invoked = <<>>
    /\ fault = NoFault

\* quality.py line 68: self._calculate_overall_score(quality_report)
CalculateOverallScore ==
    /\ pc = "score"
    /\ overall_score' = _calculate_overall_score(quality_report)
    /\ pc' = "scored"
    /\ UNCHANGED <<file, response, extraction_result, invoked, dataframe_data,
                   metadata, analysis_result, business_patterns, quality_result,
                   recommendations, stage_log, quality_report, clock, fault,
                   detected_domain,
                   services, requests,
                   text_content, csv_params,
                   cleaned_df, typed_df, numeric_series, outlier_index, handled_df>>

ScoreNext == CalculateOverallScore

SpecScore == ScoreInit /\ [][ScoreNext]_vars

\* the weights the score is specified with, in hundredths
StatedWeights ==
    [completeness |-> 25, consistency |-> 20, validity |-> 20, accuracy |-> 15,
     uniqueness |-> 10, timeliness |-> 5, integrity |-> 5]

\* the dimensions present in the report with a score
ScoredDimensions ==
    {d \in Range(DimensionOrder) :
        d \in DOMAIN quality_report /\ "score" \in DOMAIN quality_report[d]}

RECURSIVE FSum(_)
FSum(fractions) ==
    IF Len(fractions) = 0 THEN FInt(0)
    ELSE FAdd(Head(fractions), FSum(Tail(fractions)))

\* the sum of F over the dimensions of S
SumOver(S, F(_)) ==
    FSum(MapSeq(SelectSeq(DimensionOrder, LAMBDA d : d \in S), F))

\* C7: the overall score is sum(weight x score) / sum(weight) over exactly the
\* dimensions present in the report with a score, with the weights .25, .20,
\* .20, .15, .10, .05, .05, which sum to 1.0
OverallScoreIsWeightedMean ==
    /\ SumOver(Range(DimensionOrder), LAMBDA d : FInt(StatedWeights[d])) = FInt(100)
    /\ (pc = "scored" /\ ScoredDimensions # {}) =>
           overall_score =
               FDiv(SumOver(ScoredDimensions, LAMBDA d :
                        FMul(FInt(StatedWeights[d]), quality_report[d].score)),
                    SumOver(ScoredDimensions, LAMBDA d : FInt(StatedWeights[d])))

\* a score computed from a report in which a dimension is absent, another has
\* no score, and the scored ones differ
PartialReportScored ==
    /\ pc = "scored"
    /\ "completeness" \notin DOMAIN quality_report
    /\ "consistency" \in DOMAIN quality_report
    /\ "consistency" \notin ScoredDimensions
    /\ \E d, e \in ScoredDimensions :
          quality_report[d].score # quality_report[e].score
    /\ FLess(FInt(0), overall_score)
    /\ FLess(overall_score, FInt(100))


-----------------------------------------------------------------------------
(* main.py: the /extract handler *)

\* the columns the uploaded files are built from: a header field and the
\* fields the column repeats
RawColumns ==
    <<[name |-> "Revenue", fields |-> <<"$5", "$12.50", "">>],
      [name |-> "rate",    fields |-> <<"5% USD", "7% USD">>],
      [name |-> "flag",    fields |-> <<"1", "0", "1">>],
      [name |-> "active",  fields |-> <<"True", "False", "yes">>],
      [name |-> "date",    fields |-> <<"2026-10-30", "2024-02-29", "n/a">>],
      [name |-> "name",    fields |-> <<"alice", " bob ", "alice">>],
      [name |-> "name ",   fields |-> <<"x", "y">>],
      [name |-> "amount",  fields |-> <<"1,000", "2,000">>],
      [name |-> "blank",   fields |-> <<"nan ">>],
      [name |-> "code",    fields |-> <<"AB12", "", "CD34">>]>>

\* the fields pd.read_csv parses from a file of the picked columns and n rows
ParsedFields(pick, n) ==
    [error |-> FALSE,
     columns |-> [k \in DOMAIN pick |-> RawColumns[pick[k]].name],
     rows |-> [i \in 1..n |->
                  [k \in DOMAIN pick |-> Cycle(RawColumns[pick[k]].fields, n)[i]]]]

\* a file without any field
NoFields == [error |-> TRUE, columns |-> <<>>, rows |-> <<>>]

UploadBytes == 64
\* 50 * 1024 * 1024
MaxUploadBytes == 52428800

\* an ASCII file: chardet is sure of it, every codec decodes it
AsciiContent(parsed) ==
    [bytes |-> UploadBytes,
     chardet |-> [encoding |-> "ascii", confident |-> TRUE],
     decodes |-> {"ascii", "utf-8", "iso-8859-1", "cp1252"},
     parsed |-> parsed]

\* the files with a header and at most MaxCols columns and MaxRows rows
TableContents ==
    {AsciiContent(ParsedFields(pick, n)) :
        pick \in Picks(1, MaxCols, Len(RawColumns)) \ {<<>>}, n \in 0..MaxRows}

\* other contents: no byte; bytes chardet is sure are UTF-8 although they are
\* not; Latin-1 bytes chardet is unsure of; blank lines only; too many bytes
OtherContents ==
    {[AsciiContent(NoFields) EXCEPT !.bytes = 0],
     [AsciiContent(ParsedFields(<<1>>, 2)) EXCEPT
         !.chardet = [encoding |-> "utf-8", confident |-> TRUE],
         !.decodes = {"iso-8859-1", "cp1252"}],
     [AsciiContent(ParsedFields(<<6>>, 2)) EXCEPT
         !.chardet = [encoding |-> "Windows-1252", confident |-> FALSE],
         !.decodes = {"iso-8859-1", "cp1252"}],
     [AsciiContent(ParsedFields(<<6>>, 2)) EXCEPT
         !.chardet = [encoding |-> "None", confident |-> FALSE],
         !.decodes = {"iso-8859-1", "cp1252"}],
     AsciiContent(NoFields),
     [AsciiContent(ParsedFields(<<1>>, 1)) EXCEPT !.bytes = MaxUploadBytes + 1]}

\* an upload that declares UploadBytes bytes and whose read() returns none
DrainedUpload ==
    [filename |-> "data.csv",
     size |-> [known |-> TRUE, bytes |-> UploadBytes],
     content |-> [AsciiContent(NoFields) EXCEPT !.bytes = 0]]

\* UploadFile: file.size is the number of bytes received, or None
Upload(filename, size_known, content) ==
    [filename |-> filename,
     size |-> [known |-> size_known, bytes |-> content.bytes],
     content |-> content]

Uploads ==
    {Upload("data.csv", TRUE, content) : content \in TableContents \cup OtherContents}
    \cup {Upload(filename, known, AsciiContent(ParsedFields(<<1>>, 1))) :
            filename \in {"", "data.txt", "DATA.CSV"}, known \in BOOLEAN}
    \cup {DrainedUpload}

\* the same checks without the limit on the size
UploadRejectionWithoutSizeLimit(upload) ==
    IF upload.filename = "" THEN "Nom de fichier manquant"
    ELSE IF Len(upload.filename) < 4
            \/ Lower(SubSeq(upload.filename, Len(upload.filename) - 3,
                            Len(upload.filename))) # ".csv"
    THEN "Seuls les fichiers CSV sont supportes"
    ELSE IF ~upload.size.known THEN "Taille de fichier indeterminee"
    ELSE IF upload.size.bytes = 0 THEN "Fichier vide"
    ELSE ""

\* main.py lines 181-194: the checks made before the content is read
UploadRejection(upload) ==
    IF upload.filename = "" THEN "Nom de fichier manquant"
    ELSE IF Len(upload.filename) < 4
            \/ Lower(SubSeq(upload.filename, Len(upload.filename) - 3,
                            Len(upload.filename))) # ".csv"
    THEN "Seuls les fichiers CSV sont supportes"
    ELSE IF ~upload.size.known THEN "Taille de fichier indeterminee"
    ELSE IF upload.size.bytes = 0 THEN "Fichier vide"
    ELSE IF upload.size.bytes > MaxUploadBytes THEN "Fichier trop volumineux (max 50MB)"
    ELSE ""

\* the table type inference works on, when the upload gets that far
CleanedOf(upload) == _clean_and_normalize_dataframe(read_csv(upload.content.parsed))

\* the library calls of type inference that are made for the upload: a site
\* and a column on which the loop reaches that site
ReachedCalls(upload) ==
    IF \/ UploadRejection(upload) # ""
       \/ upload.content.bytes = 0
       \/ _detect_encoding(upload.content) \notin upload.content.decodes
       \/ upload.content.parsed.error
       \/ CleanedOf(upload).raised
    THEN {}
    ELSE {[site |-> site, column |-> j] :
            site \in FaultSites, j \in ColIdx(CleanedOf(upload).value)} \cap
         {f \in [site : FaultSites, column : 1..MaxCols] :
            /\ f.column \in ColIdx(CleanedOf(upload).value)
            /\ Len(dropna(CleanedOf(upload).value.col[f.column])) > 0
            /\ \/ f.site = "detect"
               \/ InferColumn(CleanedOf(upload).value.col[f.column], "none")
                      .info.detected_type = f.site}

Init ==
    /\ services = ServiceInstances
    /\ requests = NoRequests
    /\ text_content = <<>>
    /\ csv_params = Unset
    /\ cleaned_df = Unset
    /\ typed_df = Unset
    /\ numeric_series = <<>>
    /\ outlier_index = Unset
    /\ handled_df = Unset
    /\ file \in Uploads
    /\ fault \in {NoFault} \cup ReachedCalls(file)
    /\ clock \in Clocks
    /\ pc = "validate"
    /\ response = NoResponse
    /\ invoked = <<>>
    /\ extraction_result = Unset
    /\ dataframe_data = Unset
    /\ metadata = Unset
    /\ analysis_result = Unset
    /\ business_patterns = Unset
    /\ quality_result = Unset
    /\ recommendations = <<>>
    /\ stage_log = <<>>
    /\ quality_report = Unset
    /\ overall_score = FInt(0)
    /\ detected_domain = Unset

\* from the entry of the handler to `await file.read()`
ReceiveUpload ==
    /\ pc = "validate"
    /\ IF UploadRejection(file) # ""
       THEN /\ response' = HTTPError(400, UploadRejection(file))
            /\ pc' = "done"
       ELSE /\ pc' = "read"
            /\ UNCHANGED response
    /\ UNCHANGED <<file, extraction_result, invoked, dataframe_data, metadata,
                   analysis_result, business_patterns, quality_result,
                   recommendations, stage_log, quality_report, overall_score,
                   clock, fault, detected_domain,
                   services, requests,
                   text_content, csv_params,
                   cleaned_df, typed_df, numeric_series, outlier_index, handled_df>>

\* main.py lines 199-201: the content is there, up to `await extractor.extract_csv`
ReadContent ==
    /\ pc = "read"
    /\ IF file.content.bytes = 0
       THEN /\ response' = HTTPError(400, "Contenu de fichier vide apres lecture")
            /\ pc' = "done"
       ELSE /\ pc' = "extract"
            /\ UNCHANGED response
    /\ UNCHANGED <<file, extraction_result, invoked, dataframe_data, metadata,
                   analysis_result, business_patterns, quality_result,
                   recommendations, stage_log, quality_report, overall_score,
                   clock, fault, detected_domain,
                   services, requests,
                   text_content, csv_params,
                   cleaned_df, typed_df, numeric_series, outlier_index, handled_df>>

\* validate_extraction_result: the message of the ValueError it raises, or ""
validate_extraction_result(extraction, step) ==
    IF ~extraction.success
    THEN "Echec extraction a l'etape " \o step \o ": " \o extraction.error
    ELSE IF Len(extraction.dataframe_data.data) = 0
            \/ Len(extraction.dataframe_data.columns) = 0
    THEN "Donnees DataFrame incompletes a l'etape: " \o step
    ELSE ""

\* main.py lines 239-273: the recommendations and the response
AssembleStages(extraction, dd, analysis, quality, patterns) ==
    [invoked |-> <<"extract_csv", "analyze_dataframe", "detect_business_patterns",
                   "check_quality", "generate_recommendations">>,
     response |-> SuccessResponse(ResponseData(extraction, analysis, quality,
                      patterns, generate_recommendations(dd, patterns)))]

\* main.py lines 218-273: the four stages in source order and the response
RunStages(extraction, dd, now) ==
    AssembleStages(extraction, dd, analyze_dataframe(dd), check_quality(dd, now),
                   detect_business_patterns(dd))

\* main.py lines 211-289 once extract_csv has returned: the validation, the
\* log line 216 that reads dataframe_data['shape'], the stages, and the
\* `except Exception` handler
Respond(extraction, now) ==
    IF validate_extraction_result(extraction, "Extraction CSV") # ""
    THEN [invoked |-> <<"extract_csv">>,
          response |-> ErrorResponse(
              validate_extraction_result(extraction, "Extraction CSV"), extraction)]
    ELSE IF "shape" \notin DOMAIN extraction.dataframe_data
    THEN [invoked |-> <<"extract_csv">>,
          response |-> ErrorResponse("'shape'", extraction)]
    ELSE RunStages(extraction, extraction.dataframe_data, now)

\* the handler returns
Deliver(outcome) ==
    /\ invoked' = outcome.invoked
    /\ response' = outcome.response

\* main.py lines 208-289
ExtractAndRespond ==
    /\ pc = "extract"
    /\ extraction_result' = extract_csv(file.content, file.filename, fault)
    /\ Deliver(Respond(extraction_result', clock))
    /\ pc' = "done"
    /\ UNCHANGED <<file, dataframe_data, metadata, analysis_result,
                   business_patterns, quality_result, recommendations, stage_log,
                   quality_report, overall_score, clock, fault, detected_domain,
                   services, requests,
                   text_content, csv_params,
                   cleaned_df, typed_df, numeric_series, outlier_index, handled_df>>

Next ==
    \/ ReceiveUpload
    \/ ReadContent
    \/ ExtractAndRespond

Spec == Init /\ [][Next]_vars

\* the service methods called after extract_csv
NoStageInvoked == \A k \in DOMAIN invoked : invoked[k] \notin StageNames

\* success=false, a non-empty error, data={}
StructuredFailure ==
    /\ response.kind = "body"
    /\ ~response.success
    /\ response.error # ""
    /\ response.data = [x \in {} |-> x]

\* extract_csv was called and its result does not pass validate_extraction_result
ExtractionFailed ==
    /\ pc = "done"
    /\ "extract_csv" \in Range(invoked)
    /\ validate_extraction_result(extraction_result, "Extraction CSV") # ""

\* the upload bears a CSV file name and holds no byte
EmptyPayload == pc = "done" /\ UploadRejection(file) = "Fichier vide"

\* C1 as stated: when extraction fails, an empty payload included, no stage is
\* invoked and the response is the structured failure success=false, non-empty
\* error, data={}
ExtractionFailureIsStructuredAlways ==
    (ExtractionFailed \/ EmptyPayload) => (NoStageInvoked /\ StructuredFailure)

\* C1: when extract_csv fails or returns no usable rows or columns, no stage is
\* invoked and the response is the structured failure success=false, non-empty
\* error, data={}; an empty payload is refused before extraction with HTTP 400
\* and a reason, and no service method is called
ExtractionFailureIsStructured ==
    /\ ExtractionFailed => (NoStageInvoked /\ StructuredFailure)
    /\ EmptyPayload => (invoked = <<>> /\ response = HTTPError(400, "Fichier vide"))

\* a request has ended on an extraction that raised
ExtractionFailureReached ==
    /\ ExtractionFailed
    /\ ~extraction_result.success
    /\ StructuredFailure

\* the column a raising call works on, as cleaning left it and as the missing
\* value handling and the JSON preparation pass an unconverted column on
UnconvertedCells(upload, j) ==
    MapSeq(HandleMissing(CleanedOf(upload).value.columns[j],
                         CleanedOf(upload).value.col[j], "object").values,
           LAMBDA c : JsonCell(c, "object"))

ClassificationPrecedence ==
    (/\ pc = "done" /\ fault = NoFault
     /\ "extract_csv" \in Range(invoked) /\ extraction_result.success) =>
        \A j \in DOMAIN extraction_result.extraction_info.type_conversions :
            Len(dropna(CleanedOf(file).value.col[j])) > 0 =>
                /\ (/\ _is_currency_column(dropna(CleanedOf(file).value.col[j]))
                    /\ _is_percentage_column(dropna(CleanedOf(file).value.col[j])))
                   => extraction_result.extraction_info.type_conversions[j]
                          .detected_type = "currency"
                /\ (/\ _is_boolean_column(dropna(CleanedOf(file).value.col[j]))
                    /\ _is_numeric_column(dropna(CleanedOf(file).value.col[j])))
                   => extraction_result.extraction_info.type_conversions[j]
                          .detected_type = "boolean"

\* the upload has an unknown size, no byte or more bytes than the limit, or
\* its content is empty once read
Inadmissible ==
    \/ ~file.size.known
    \/ file.size.bytes = 0
    \/ file.size.bytes > MaxUploadBytes
    \/ file.content.bytes = 0

\* C12: for an upload of unknown size, of size zero, above 50 MB, or empty
\* once read, extract_csv is never called and the request ends on a client
\* error
AdmissionBeforeExtraction ==
    Inadmissible =>
        /\ "extract_csv" \notin Range(invoked)
        /\ extraction_result = Unset
        /\ pc = "done" =>
              /\ response.kind = "http_error"
              /\ response.status_code \in 400..499

\* an upload above the limit has been refused
OversizedUploadRefused ==
    /\ pc = "done"
    /\ file.filename = "data.csv"
    /\ file.size.bytes > MaxUploadBytes
    /\ response = HTTPError(400, "Fichier trop volumineux (max 50MB)")

\* extract_csv has returned a result that reports success
ExtractionSucceeded ==
    /\ pc = "done"
    /\ "extract_csv" \in Range(invoked)
    /\ extraction_result.success

\* C13: an extraction that reports success holds a table of at least one row
\* and one column, with as many column names as columns; a file whose table
\* has no row or no column once the empty rows and columns are dropped gives
\* a failure
ExtractedTableIsNonEmpty ==
    ExtractionSucceeded =>
        /\ Len(extraction_result.dataframe_data.data) >= 1
        /\ Len(extraction_result.dataframe_data.columns) >= 1
        /\ \A i \in DOMAIN extraction_result.dataframe_data.data :
              Len(extraction_result.dataframe_data.data[i])
                  = Len(extraction_result.dataframe_data.columns)
        /\ extraction_result.metadata.shape.rows
              = Len(extraction_result.dataframe_data.data)
        /\ extraction_result.metadata.shape.columns
              = Len(extraction_result.dataframe_data.columns)

\* C14: whatever chardet answers, the reader ends with the content decoded
\* under the encoding it records, and no extraction fails on decoding
DecodingNeverFails ==
    (pc = "done" /\ "extract_csv" \in Range(invoked)) =>
        /\ _detect_encoding(file.content) \in file.content.decodes
        /\ \/ extraction_result.success
           \/ extraction_result.error
                  # "Erreur extraction: '" \o _detect_encoding(file.content)
                        \o "' codec can't decode"

\* the keys of the dict filled by type_info[col] = col_info for col in columns,
\* in the order of their first assignment
RECURSIVE DictKeys(_)
DictKeys(columns) ==
    IF columns = <<>> THEN <<>>
    ELSE LET front == DictKeys(SubSeq(columns, 1, Len(columns) - 1))
             last == columns[Len(columns)]
         IN IF last \in Range(front) THEN front ELSE Append(front, last)

detected_types == {"string", "percentage", "currency", "numeric", "datetime", "boolean"}

\* C16: after type inference every column of the table has exactly one
\* type-info record and every record belongs to a column, columns without any
\* value included; inference leaves the columns and their order as cleaning
\* left them
TypeInfoMatchesColumns ==
    ExtractionSucceeded =>
        /\ extraction_result.dataframe_data.columns = CleanedOf(file).value.columns
        /\ extraction_result.metadata.columns = CleanedOf(file).value.columns
        /\ DictKeys(CleanedOf(file).value.columns) = CleanedOf(file).value.columns
        /\ DOMAIN extraction_result.extraction_info.type_conversions
              = DOMAIN CleanedOf(file).value.columns
        /\ DOMAIN extraction_result.metadata.data_types
              = DOMAIN CleanedOf(file).value.columns
        /\ \A j \in DOMAIN extraction_result.extraction_info.type_conversions :
              extraction_result.extraction_info.type_conversions[j].detected_type
                  \in detected_types

\* a table with a column that holds no value has gone through inference
ColumnWithoutValueInferred ==
    /\ ExtractionSucceeded
    /\ \E j \in DOMAIN CleanedOf(file).value.columns :
          /\ dropna(CleanedOf(file).value.col[j]) = <<>>
          /\ extraction_result.extraction_info.type_conversions[j]
                = ColumnInfo("string", FALSE, "None")

\* C17: a missing cell and an empty-string cell stay apart through
\* extraction: no cell that read_csv and cleaning left missing holds a text in
\* the table handed to the later stages, and no cell that is the empty string
\* in the file is missing in that table
MissingAndEmptyStayApart ==
    ExtractionSucceeded =>
        /\ \A i \in DOMAIN extraction_result.dataframe_data.data :
              \A j \in DOMAIN extraction_result.dataframe_data.columns :
                 isnull(CleanedOf(file).value.col[j][i])
                     => extraction_result.dataframe_data.data[i][j].t # "str"
        /\ (/\ Len(extraction_result.dataframe_data.data)
                  = Len(file.content.parsed.rows)
             /\ Len(extraction_result.dataframe_data.columns)
                  = Len(file.content.parsed.columns))
              => \A i \in DOMAIN file.content.parsed.rows :
                    \A j \in DOMAIN file.content.parsed.columns :
                       file.content.parsed.rows[i][j] = ""
                           => notnull(extraction_result.dataframe_data.data[i][j])

-----------------------------------------------------------------------------
(* CSVExtractor._detect_csv_parameters. The decoded text is the sequence of *)
(* its lines, none of which holds a quote character, so that csv.Sniffer     *)
(* finds no quoted field and guesses the delimiter from the lines alone.     *)

MaxLines == 3

\* delimiters=',;\t|' of the call of sniff, and the list of the fallback loop
candidate_delimiters == <<",", ";", "\t", "|">>

\* csv.Sniffer.preferred
preferred == <<",", "\t", ";", " ", ":">>

\* line.count(char)
CountChar(line, char) == Len(SelectSeq(line, LAMBDA c : c = char))

\* the number of lines of data in which char occurs f times
LinesWith(data, char, f) == Count(data, LAMBDA line : CountChar(line, char) = f)

\* modes[char] of csv.Sniffer._guess_delimiter: the most frequent number of
\* occurrences of char in a line, and the number of lines with that number
\* minus the number of the other lines (positive for a strict majority only)
ModeOf(data, char) ==
    IF \E i \in DOMAIN data :
          2 * LinesWith(data, char, CountChar(data[i], char)) > Len(data)
    THEN LET i == CHOOSE i \in DOMAIN data :
                    2 * LinesWith(data, char, CountChar(data[i], char)) > Len(data)
         IN [freq |-> CountChar(data[i], char),
             margin |-> 2 * LinesWith(data, char, CountChar(data[i], char)) - Len(data)]
    ELSE [freq |-> 0, margin |-> 0]

\* v[0] > 0 and v[1] > 0 and v[1] / total >= consistency, consistency in
\* hundredths
Consistent(mode, total, consistency) ==
    /\ mode.freq > 0
    /\ mode.margin > 0
    /\ 100 * mode.margin >= consistency * total

\* delims once the inner loop has run with this consistency
DelimsAt(data, consistency) ==
    {char \in Range(candidate_delimiters) :
        Consistent(ModeOf(data, char), Len(data), consistency)}

\* the one delimiter of delims, or the first preferred one
PickDelimiter(delims) ==
    IF Cardinality(delims) = 1 THEN CHOOSE char \in delims : TRUE
    ELSE preferred[SetMin({i \in DOMAIN preferred : preferred[i] \in delims})]

\* csv.Sniffer._guess_delimiter on the lines of one chunk (at most ten):
\* consistency goes from 1.0 down to 0.9 until a delimiter qualifies; "" when
\* none does
_guess_delimiter(data) ==
    IF \A c \in 90..100 : DelimsAt(data, c) = {} THEN ""
    ELSE PickDelimiter(DelimsAt(data,
             SetMax({c \in 90..100 : DelimsAt(data, c) # {}})))

\* sample.count(delim)
SampleCount(lines, delim) == SumSeq(MapSeq(lines, LAMBDA line : CountChar(line, delim)))

\* the except branch: the candidate that occurs most often in the sample, the
\* first of them on a tie, the default ',' when none occurs
MostFrequentDelimiter(lines) ==
    LET found == SelectSeq(candidate_delimiters,
                           LAMBDA delim : SampleCount(lines, delim) > 0)
    IN IF Len(found) = 0 THEN ","
       ELSE found[SetMin({i \in DOMAIN found : \A j \in DOMAIN found :
                SampleCount(lines, found[j]) <= SampleCount(lines, found[i])})]

\* params once sniff has returned a delimiter or raised
ParamsFrom(sniffed, lines) ==
    [delimiter |-> IF sniffed # "" THEN sniffed ELSE MostFrequentDelimiter(lines),
     quotechar |-> "\"", skipinitialspace |-> TRUE]

\* the sample is made of the first ten lines; csv.Sniffer drops the empty ones
_detect_csv_parameters(lines) ==
    ParamsFrom(_guess_delimiter(SelectSeq(head(lines, 10), LAMBDA line : line # "")),
               head(lines, 10))

\* the lines the texts of the model are made of
DelimitedLines ==
    {"a;b", "c;d;e", "1,5;2,5", "3,5;4,5", "x, y, z;w", "a|b;c", "a\tb;c", "a,b",
     "abc", "a;b;c,d", "p|q|r", "k;l|m"}

Texts == UNION {[1..n -> DelimitedLines] : n \in 0..MaxLines}

DelimiterInit ==
    /\ services = ServiceInstances
    /\ requests = NoRequests
    /\ text_content \in Texts
    /\ csv_params = Unset
    /\ cleaned_df = Unset
    /\ typed_df = Unset
    /\ numeric_series = <<>>
    /\ outlier_index = Unset
    /\ handled_df = Unset
    /\ pc = "decoded"
    /\ file = Unset
    /\ fault = NoFault
    /\ clock = DaysFromCivil(2026, 11, 2)
    /\ response = NoResponse
    /\ invoked = <<>>
    /\ extraction_result = Unset
    /\ dataframe_data = Unset
    /\ metadata = Unset
    /\ analysis_result = Unset
    /\ business_patterns = Unset
    /\ quality_result = Unset
    /\ recommendations = <<>>
    /\ stage_log = <<>>
    /\ quality_report = Unset
    /\ overall_score = FInt(0)
    /\ detected_domain = Unset

\* extractor.py line 63
DetectCsvParameters ==
    /\ pc = "decoded"
    /\ csv_params' = _detect_csv_parameters(text_content)
    /\ pc' = "sniffed"
    /\ UNCHANGED <<file, response, extraction_result, invoked, dataframe_data,
                   metadata, analysis_result, business_patterns, quality_result,
                   recommendations, stage_log, quality_report, overall_score,
                   clock, fault, detected_domain, services, requests,
                   text_content,
                   cleaned_df, typed_df, numeric_series, outlier_index, handled_df>>

DelimiterNext == DetectCsvParameters

SpecDelimiter == DelimiterInit /\ [][DelimiterNext]_vars

\* every line of the text holds the same number, at least one, of ';'
SemicolonConsistent ==
    /\ Len(text_content) > 0
    /\ CountChar(text_content[1], ";") >= 1
    /\ \A i \in DOMAIN text_content :
          CountChar(text_content[i], ";") = CountChar(text_content[1], ";")

\* C15: on a sample whose lines all split on ';' into the same number, more
\* than one, of fields, the detected delimiter is ';', however often the
\* other candidates occur
SemicolonDetected ==
    (pc = "sniffed" /\ SemicolonConsistent) => csv_params.delimiter = ";"

-----------------------------------------------------------------------------
(* Two /extract requests served by one event loop: the handler of a request *)
(* gives way to the other at `await file.read()`; the service calls that    *)
(* follow hold no await that suspends, so they run in one piece             *)

RequestIds == {1, 2}

\* the uploads of the two requests
ConcurrentUploads ==
    {Upload("data.csv", TRUE, AsciiContent(ParsedFields(<<1>>, 2))),
     Upload("data.csv", TRUE, AsciiContent(ParsedFields(<<6>>, 2))),
     Upload("data.csv", TRUE, AsciiContent(ParsedFields(<<6, 3>>, 3))),
     Upload("data.csv", TRUE, AsciiContent(ParsedFields(<<6>>, 0))),
     Upload("data.csv", TRUE, [AsciiContent(NoFields) EXCEPT !.bytes = 0]),
     Upload("data.txt", TRUE, AsciiContent(ParsedFields(<<1>>, 1)))}

\* extract_and_analyze run from its entry to its response with no other
\* request in progress
HandleAlone(upload, now) ==
    IF UploadRejection(upload) # ""
    THEN [invoked |-> <<>>, response |-> HTTPError(400, UploadRejection(upload))]
    ELSE IF upload.content.bytes = 0
    THEN [invoked |-> <<>>,
          response |-> HTTPError(400, "Contenu de fichier vide apres lecture")]
    ELSE Respond(extract_csv(upload.content, upload.filename, NoFault), now)

\* a request that has just entered the handler; `alone` keeps what it would
\* be answered with no other request in progress
NewRequest(upload, now) ==
    [file |-> upload, pc |-> "validate", response |-> NoResponse,
     invoked |-> <<>>, extraction_result |-> Unset, alone |-> HandleAlone(upload, now)]

ConcurrentInit ==
    /\ services = ServiceInstances
    /\ clock \in Clocks
    /\ requests \in [RequestIds -> {NewRequest(upload, clock) :
                                       upload \in ConcurrentUploads}]
    /\ stage_log = <<>>
    /\ text_content = <<>>
    /\ csv_params = Unset
    /\ cleaned_df = Unset
    /\ typed_df = Unset
    /\ numeric_series = <<>>
    /\ outlier_index = Unset
    /\ handled_df = Unset
    /\ pc = "serving"
    /\ file = Unset
    /\ fault = NoFault
    /\ response = NoResponse
    /\ invoked = <<>>
    /\ extraction_result = Unset
    /\ dataframe_data = Unset
    /\ metadata = Unset
    /\ analysis_result = Unset
    /\ business_patterns = Unset
    /\ quality_result = Unset
    /\ recommendations = <<>>
    /\ quality_report = Unset
    /\ overall_score = FInt(0)
    /\ detected_domain = Unset

\* the handler of request r runs from one await to the next
Step(r, step, request) ==
    /\ requests' = [requests EXCEPT ![r] = request]
    /\ stage_log' = Append(stage_log, [request |-> r, step |-> step])
    /\ UNCHANGED <<file, pc, response, extraction_result, invoked, dataframe_data,
                   metadata, analysis_result, business_patterns, quality_result,
                   recommendations, quality_report, overall_score, clock, fault,
                   detected_domain, text_content, csv_params,
                   cleaned_df, typed_df, numeric_series, outlier_index, handled_df>>

\* main.py lines 177-199 for request r
RequestReceiveUpload(r) ==
    /\ requests[r].pc = "validate"
    /\ Step(r, "validate",
            IF UploadRejection(requests[r].file) # ""
            THEN [requests[r] EXCEPT
                     !.response = HTTPError(400, UploadRejection(requests[r].file)),
                     !.pc = "done"]
            ELSE [requests[r] EXCEPT !.pc = "read"])
    /\ UNCHANGED services

\* the request once the handler returned
Answered(request, extraction, outcome) ==
    [request EXCEPT !.extraction_result = extraction,
                    !.invoked = outcome.invoked,
                    !.response = outcome.response,
                    !.pc = "done"]

\* the request once extract_csv returned
RequestExtracted(request, extraction, now) ==
    Answered(request, extraction, Respond(extraction, now))

\* the fields of the upload's lines of data
FieldsOf(upload) ==
    UNION {Range(upload.content.parsed.rows[i]) :
              i \in DOMAIN upload.content.parsed.rows}

\* the same step of a reader that remembers, in self.na_values, the fields it
\* has met
RequestExtractRemembering(r) ==
    /\ requests[r].pc = "read"
    /\ Step(r, "extract",
            IF requests[r].file.content.bytes = 0
            THEN [requests[r] EXCEPT
                     !.response = HTTPError(400, "Contenu de fichier vide apres lecture"),
                     !.pc = "done"]
            ELSE RequestExtracted(requests[r],
                            extract_csv(requests[r].file.content,
                                        requests[r].file.filename, NoFault),
                            clock))
    /\ services' = [services EXCEPT !.extractor.na_values =
                        @ \cup FieldsOf(requests[r].file)]

\* main.py lines 199-289 for request r: the content has been read
RequestExtractAndRespond(r) ==
    /\ requests[r].pc = "read"
    /\ Step(r, "extract",
            IF requests[r].file.content.bytes = 0
            THEN [requests[r] EXCEPT
                     !.response = HTTPError(400, "Contenu de fichier vide apres lecture"),
                     !.pc = "done"]
            ELSE RequestExtracted(requests[r],
                            extract_csv(requests[r].file.content,
                                        requests[r].file.filename, NoFault),
                            clock))
    /\ UNCHANGED services

ConcurrentNext ==
    \E r \in RequestIds :
        \/ RequestReceiveUpload(r)
        \/ RequestExtractAndRespond(r)

SpecConcurrent == ConcurrentInit /\ [][ConcurrentNext]_vars

-----------------------------------------------------------------------------
(* CSVExtractor._auto_detect_and_convert_types on one column: the table is  *)
(* the one _clean_and_normalize_dataframe returns, texts and missing cells. *)

MaxCells == 3

\* the cells cleaning leaves in a column
CleanedCells ==
    {Str(text) : text \in {"1,234.50", "998.00", "0.00", "10%", "25%", "5%", "$5"}}
    \cup {NaN}

CleanedSeries == UNION {[1..n -> CleanedCells] : n \in 1..MaxCells}

\* the cells of a column of truth values as they are written in a file
BooleanCells == {Str(text) : text \in {"True", "false", "yes", "1"}} \cup {NaN}

BooleanSeries == UNION {[1..n -> BooleanCells] : n \in 1..MaxCells}

\* the cleaned table of one column
OneColumn(name, series) ==
    [columns |-> <<name>>, dtype |-> <<"object">>, col |-> <<series>>,
     nrows |-> Len(series)]

InferenceInit ==
    /\ services = ServiceInstances
    /\ requests = NoRequests
    /\ text_content = <<>>
    /\ csv_params = Unset
    /\ cleaned_df \in {OneColumn(name, series) :
                         name \in {"Revenue", "discount"}, series \in CleanedSeries}
                     \cup {OneColumn("active", series) : series \in BooleanSeries}
    /\ typed_df = Unset
    /\ numeric_series = <<>>
    /\ outlier_index = Unset
    /\ handled_df = Unset
    /\ pc = "cleaned"
    /\ file = Unset
    /\ fault = NoFault
    /\ clock = DaysFromCivil(2026, 11, 2)
    /\ response = NoResponse
    /\ invoked = <<>>
    /\ extraction_result = Unset
    /\ dataframe_data = Unset
    /\ metadata = Unset
    /\ analysis_result = Unset
    /\ business_patterns = Unset
    /\ quality_result = Unset
    /\ recommendations = <<>>
    /\ stage_log = <<>>
    /\ quality_report = Unset
    /\ overall_score = FInt(0)
    /\ detected_domain = Unset

\* extractor.py line 75
AutoDetectAndConvertTypes ==
    /\ pc = "cleaned"
    /\ typed_df' = _auto_detect_and_convert_types(cleaned_df, fault)
    /\ pc' = "typed"
    /\ UNCHANGED <<file, response, extraction_result, invoked, dataframe_data,
                   metadata, analysis_result, business_patterns, quality_result,
                   recommendations, stage_log, quality_report, overall_score,
                   clock, fault, detected_domain, services, requests,
                   text_content, csv_params, cleaned_df, numeric_series,
                   outlier_index, handled_df>>

InferenceNext == AutoDetectAndConvertTypes

SpecInference == InferenceInit /\ [][InferenceNext]_vars

\* inference has run on a column of the given name and cells
InferredFrom(name, series) ==
    /\ pc = "typed"
    /\ cleaned_df = OneColumn(name, series)

\* C18: the column "Revenue" holding "1,234.50", "998.00", "0.00" is
\* classified currency and its values become 1234.5, 998.0 and 0.0 (numbers
\* are held in hundredths), none of them missing
RevenueIsCurrency ==
    InferredFrom("Revenue", <<Str("1,234.50"), Str("998.00"), Str("0.00")>>) =>
        /\ ~typed_df.raised
        /\ typed_df.value.type_info[1].detected_type = "currency"
        /\ typed_df.value.df.col[1] = <<Num(123450), Num(99800), Num(0)>>

\* C19: a column holding "10%", "25%", "5%" is classified percentage and its
\* values become the fractions 0.10, 0.25 and 0.05 (numbers are held in
\* hundredths)
PercentagesAreFractions ==
    (\E name \in {"Revenue", "discount"} :
        InferredFrom(name, <<Str("10%"), Str("25%"), Str("5%")>>)) =>
        /\ ~typed_df.raised
        /\ typed_df.value.type_info[1].detected_type = "percentage"
        /\ typed_df.value.df.col[1] = <<Num(10), Num(25), Num(5)>>

-----------------------------------------------------------------------------
(* DataAnalyzer._detect_outliers_iqr on one numeric column *)

MaxValues == 5

NumericCells == {Num(1), Num(2), Num(3), Num(4), Num(100), NaN}

NumericSeries == UNION {[1..n -> NumericCells] : n \in 0..MaxValues}

OutliersInit ==
    /\ services = ServiceInstances
    /\ requests = NoRequests
    /\ text_content = <<>>
    /\ csv_params = Unset
    /\ cleaned_df = Unset
    /\ typed_df = Unset
    /\ numeric_series \in NumericSeries
    /\ outlier_index = Unset
    /\ handled_df = Unset
    /\ pc = "column"
    /\ file = Unset
    /\ fault = NoFault
    /\ clock = DaysFromCivil(2026, 11, 2)
    /\ response = NoResponse
    /\ invoked = <<>>
    /\ extraction_result = Unset
    /\ dataframe_data = Unset
    /\ metadata = Unset
    /\ analysis_result = Unset
    /\ business_patterns = Unset
    /\ quality_result = Unset
    /\ recommendations = <<>>
    /\ stage_log = <<>>
    /\ quality_report = Unset
    /\ overall_score = FInt(0)
    /\ detected_domain = Unset

\* analyzer.py line 1457
DetectOutliersIqr ==
    /\ pc = "column"
    /\ outlier_index' = _detect_outliers_iqr(numeric_series)
    /\ pc' = "detected"
    /\ UNCHANGED <<file, response, extraction_result, invoked, dataframe_data,
                   metadata, analysis_result, business_patterns, quality_result,
                   recommendations, stage_log, quality_report, overall_score,
                   clock, fault, detected_domain, services, requests,
                   text_content, csv_params, cleaned_df, typed_df,
                   numeric_series, handled_df>>

OutliersNext == DetectOutliersIqr

SpecOutliers == OutliersInit /\ [][OutliersNext]_vars

\* the values present in the column, in increasing order
PresentSorted == Sort(MapSeq(dropna(numeric_series), LAMBDA c : c.n))

\* four times the quantile k/4 of the values present, by linear interpolation
\* between the two nearest ranks
FourTimesQuartile(k) ==
    4 * PresentSorted[((Len(PresentSorted) - 1) * k) \div 4 + 1]
    + (((Len(PresentSorted) - 1) * k) % 4)
        * (PresentSorted[Min(((Len(PresentSorted) - 1) * k) \div 4 + 2,
                             Len(PresentSorted))]
           - PresentSorted[((Len(PresentSorted) - 1) * k) \div 4 + 1])

\* v < Q1 - 1.5 IQR or v > Q3 + 1.5 IQR, all terms multiplied by 8
OutsideFences(v) ==
    \/ 8 * v < 5 * FourTimesQuartile(1) - 3 * FourTimesQuartile(3)
    \/ 8 * v > 5 * FourTimesQuartile(3) - 3 * FourTimesQuartile(1)

\* C20: the outliers reported for a numeric column are exactly its values
\* present strictly below Q1 - 1.5 IQR or strictly above Q3 + 1.5 IQR; a column
\* with fewer than 4 values present reports none
OutliersAreBeyondFences ==
    pc = "detected" =>
        IF Len(PresentSorted) < 4 THEN outlier_index = <<>>
        ELSE /\ \A i \in DOMAIN numeric_series :
                   i \in Range(outlier_index)
                       <=> /\ notnull(numeric_series[i])
                           /\ OutsideFences(numeric_series[i].n)
             /\ Cardinality(Range(outlier_index)) = Len(outlier_index)

\* the column 1, 2, 3, 4, 100 reports its last value and no other
OneOutlierReported ==
    /\ pc = "detected"
    /\ numeric_series = <<Num(1), Num(2), Num(3), Num(4), Num(100)>>
    /\ outlier_index = <<5>>

-----------------------------------------------------------------------------
(* QualityChecker: the seven dimension checks on one table, as check_quality *)
(* calls them on the frame it rebuilds (quality.py lines 54-65)              *)

MaxDateCols == 5

\* a table of k date columns whose latest day is years before the clocks
DatedTable(k) ==
    [columns |-> [j \in 1..k |-> "date " \o NatToStr(j)],
     data |-> <<[j \in 1..k |-> Str("2020-01-01")]>>]

\* further columns the dimension checks look at: a name and the cells
CheckedColumns ==
    <<[name |-> "revenue", cells |-> <<Num(200000000), Num(500)>>],
      [name |-> "rate",    cells |-> <<Num(15000), Num(2500)>>],
      [name |-> "discount rate", cells |-> <<Str("5%"), Str("x"), Str("y")>>],
      [name |-> "mixed",   cells |-> <<Str("12"), Str("x"), Str("7")>>]>>

\* the table of one of these columns
CheckedTable(column) ==
    [columns |-> <<column.name>>,
     data |-> [i \in DOMAIN column.cells |-> <<column.cells[i]>>]]

DominantRows == 20

\* a table of DominantRows rows with a column of distinct references and a
\* column that holds the same cell in every row but the last, which is missing
DominantTable(cell) ==
    [columns |-> <<"ref", "status">>,
     data |-> [i \in 1..DominantRows |->
                  <<Num(100 * i), IF i = DominantRows THEN None ELSE cell>>]]

DimensionTables ==
    TypedTables \cup {DatedTable(k) : k \in 1..MaxDateCols}
    \cup {DominantTable(cell) : cell \in {Num(500), Str("ok")}}
    \cup {CheckedTable(CheckedColumns[k]) : k \in DOMAIN CheckedColumns}

DimensionsInit ==
    /\ services = ServiceInstances
    /\ requests = NoRequests
    /\ text_content = <<>>
    /\ csv_params = Unset
    /\ cleaned_df = Unset
    /\ typed_df = Unset
    /\ numeric_series = <<>>
    /\ outlier_index = Unset
    /\ handled_df = Unset
    /\ dataframe_data \in DimensionTables
    /\ clock \in Clocks
    /\ pc = "reconstructed"
    /\ file = Unset
    /\ fault = NoFault
    /\ response = NoResponse
    /\ invoked = <<>>
    /\ extraction_result = Unset
    /\ metadata = [filename |-> "data.csv"]
    /\ analysis_result = Unset
    /\ business_patterns = Unset
    /\ quality_result = Unset
    /\ recommendations = <<>>
    /\ stage_log = <<>>
    /\ quality_report = Unset
    /\ overall_score = FInt(0)
    /\ detected_domain = Unset

\* quality.py lines 56-62
CheckDimensions ==
    /\ pc = "reconstructed"
    /\ quality_report' = Dimensions(_get_dataframe(dataframe_data), clock)
    /\ pc' = "checked"
    /\ UNCHANGED <<file, response, extraction_result, invoked, dataframe_data,
                   metadata, analysis_result, business_patterns, quality_result,
                   recommendations, stage_log, overall_score, clock, fault,
                   detected_domain, services, requests, text_content, csv_params,
                   cleaned_df, typed_df, numeric_series, outlier_index, handled_df>>

DimensionsNext == CheckDimensions

SpecDimensions == DimensionsInit /\ [][DimensionsNext]_vars

\* no column name of the table holds one of the words by which the check
\* recognises a date column
NoDateLikeColumn ==
    \A j \in DOMAIN dataframe_data.columns :
        \A word \in {"date", "month", "year", "time"} :
            ~Contains(word, Lower(dataframe_data.columns[j]))

\* C21: for a table without date-like column the timeliness dimension scores
\* at most 60 and its issues record that no date column was found; the
\* timeliness score is always within 0..100
TimelinessWithoutDates ==
    pc = "checked" =>
        /\ ~quality_report.timeliness.raised
        /\ FLeq(FInt(0), quality_report.timeliness.score)
        /\ FLeq(quality_report.timeliness.score, FInt(100))
        /\ NoDateLikeColumn =>
              /\ FLeq(quality_report.timeliness.score, FInt(60))
              /\ "Aucune colonne de date detectee"
                    \in Range(quality_report.timeliness.issues)

\* a table with rows and without date-like column has been scored 60
UndatedTableScored ==
    /\ pc = "checked"
    /\ NoDateLikeColumn
    /\ Len(dataframe_data.data) > 0
    /\ quality_report.timeliness.score = FInt(60)
    /\ quality_report.timeliness.issues = <<"Aucune colonne de date detectee">>

\* a table whose date columns are all stale has been scored 0
StaleTableScored ==
    /\ pc = "checked"
    /\ ~NoDateLikeColumn
    /\ quality_report.timeliness.score = FInt(0)

\* a column whose name holds one of the words holds a number that satisfies
\* Test (numbers are held in hundredths)
NumberIn(words, Test(_)) ==
    \E j \in DOMAIN dataframe_data.columns :
        /\ ContainsAny(words, Lower(dataframe_data.columns[j]))
        /\ \E i \in DOMAIN dataframe_data.data :
              /\ dataframe_data.data[i][j].t = "num"
              /\ Test(dataframe_data.data[i][j].n)

NegativeCountValue ==
    NumberIn({"count", "number", "#", "contracts"}, LAMBDA n : n < 0)
PercentageOutOfRange ==
    NumberIn({"%", "rate", "share"}, LAMBDA n : n < 0 \/ n > 10000)
CurrencyAboveCeiling ==
    NumberIn({"revenue", "package", "ir"}, LAMBDA n : n > 100000000)

ValidityLowered ==
    /\ ~quality_report.validity.raised
    /\ FLess(quality_report.validity.score, FInt(100))
    /\ Len(quality_report.validity.issues) > 0

\* C22: a negative value in a count-like column, a percentage outside 0..100
\* in a percentage-like column and a currency magnitude above 1,000,000 in a
\* financial column each lower the validity score below 100 and add an issue
OutOfDomainLowersValidity ==
    pc = "checked" =>
        /\ NegativeCountValue => ValidityLowered
        /\ PercentageOutOfRange => ValidityLowered
        /\ CurrencyAboveCeiling => ValidityLowered

\* the texts of column j of the table
TextsOf(j) ==
    SelectSeq([i \in DOMAIN dataframe_data.data |-> dataframe_data.data[i][j]],
              LAMBDA c : c.t = "str")

\* a text column, every cell a text, of which more than 30% and less than 90%
\* of the values read as numbers
MixedTextColumn ==
    \E j \in DOMAIN dataframe_data.columns :
        /\ Len(TextsOf(j)) = Len(dataframe_data.data)
        /\ 3 * Len(TextsOf(j)) < 10 * Count(TextsOf(j), NumericLike)
        /\ 10 * Count(TextsOf(j), NumericLike) < 9 * Len(TextsOf(j))

\* a percentage column, every cell a text, in which some values but fewer than
\* 80% bear the percent sign
InconsistentPercentFormat ==
    \E j \in DOMAIN dataframe_data.columns :
        /\ ContainsAny({"%", "rate"}, Lower(dataframe_data.columns[j]))
        /\ Len(TextsOf(j)) = Len(dataframe_data.data)
        /\ Count(TextsOf(j), LAMBDA c : Contains("%", c.s)) > 0
        /\ 10 * Count(TextsOf(j), LAMBDA c : Contains("%", c.s)) < 8 * Len(TextsOf(j))

\* C23: the consistency score is below 100 when a text column mixes values
\* that read as numbers with others (ratio strictly between 0.3 and 0.9) and
\* when a column shows inconsistent percent or currency formatting; every
\* issue of the consistency check goes with a penalty on the score
ConsistencyIssuesArePenalised ==
    (pc = "checked" /\ ~quality_report.consistency.raised) =>
        /\ MixedTextColumn => FLess(quality_report.consistency.score, FInt(100))
        /\ InconsistentPercentFormat
              => FLess(quality_report.consistency.score, FInt(100))
        /\ Len(quality_report.consistency.issues) > 0
              => FLess(quality_report.consistency.score, FInt(100))

-----------------------------------------------------------------------------
(* QualityChecker._generate_quality_recommendations, on the reports of *)
(* check_quality                                                        *)

\* the thresholds of the dimensions: those _generate_quality_recommendations
\* compares with, and the one self.quality_thresholds configures for accuracy
\* (integrity has none)
DimensionThresholds ==
    [completeness |-> 80, consistency |-> 80, validity |-> 80,
     accuracy |-> quality_thresholds.accuracy, uniqueness |-> 90, timeliness |-> 70]

BandRecommendations ==
    {"Excellente qualite de donnees", "Bonne qualite de donnees", "Qualite acceptable",
     "Qualite problematique", "Qualite critique"}

\* the recommendation of the band of an overall score
BandOf(overall) ==
    IF FLeq(FInt(90), overall) THEN "Excellente qualite de donnees"
    ELSE IF FLeq(FInt(80), overall) THEN "Bonne qualite de donnees"
    ELSE IF FLeq(FInt(70), overall) THEN "Qualite acceptable"
    ELSE IF FLeq(FInt(60), overall) THEN "Qualite problematique"
    ELSE "Qualite critique"

\* check_quality has returned a report whose recommendations were generated
\* from its scores (the table has rows and no dimension check raised)
ReportWithGeneratedRecommendations ==
    /\ Called("check_quality")
    /\ ~empty(QualityTable)
    /\ RaisedDimensions = {}

\* C24: the recommendations of a report are the recommendation of the band of
\* overall_score, one recommendation for every dimension that scores below
\* its threshold, and the note on anomalies exactly when one was detected
RecommendationsFollowScores ==
    ReportWithGeneratedRecommendations =>
        /\ Count(quality_result.recommendations,
                 LAMBDA text : text \in BandRecommendations) = 1
        /\ BandOf(quality_result.overall_score)
              \in Range(quality_result.recommendations)
        /\ ("Investiguer les anomalies detectees"
               \in Range(quality_result.recommendations))
              <=> (Len(quality_result.anomalies) > 0)
        /\ Len(quality_result.recommendations)
              = 1 + Cardinality({d \in DOMAIN DimensionThresholds :
                        FLess(quality_result[d].score, FInt(DimensionThresholds[d]))})
                  + (IF Len(quality_result.anomalies) > 0 THEN 1 ELSE 0)

\* the cells of column j of the table
CellsOf(j) == [i \in DOMAIN dataframe_data.data |-> dataframe_data.data[i][j]]

\* a column holds one value in at least 95% of its cells and every other cell
\* of it is missing
DominantColumn ==
    \E j \in DOMAIN dataframe_data.columns :
        /\ nunique(CellsOf(j)) = 1
        /\ Count(CellsOf(j), isnull) > 0
        /\ 100 * Count(CellsOf(j), notnull) >= 95 * Len(CellsOf(j))

\* the issues of all dimensions of the report
AllIssues ==
    UNION {Range(quality_report[d].issues) : d \in Range(DimensionOrder)}

\* C25: for a table with a column in which 95% of the cells hold one value and
\* the others are missing, whatever its data type, the report holds an issue
\* on the dominance or duplication of the value and the accuracy score is
\* lowered
DominantValueReported ==
    (pc = "checked" /\ DominantColumn) =>
        /\ ~quality_report.accuracy.raised
        /\ FLess(quality_report.accuracy.score, FInt(BaseAccuracy))
        /\ \E issue \in AllIssues :
              ContainsAny({"identiques", "dupliquees"}, issue)

-----------------------------------------------------------------------------
(* main.py: what a success=true body of /extract holds *)

Succeeded == response.kind = "body" /\ response.success

\* the NaN cells of the table carried by the extraction result
NaNCells(dd) ==
    {<<i, j>> \in (DOMAIN dd.data) \X (DOMAIN dd.columns) : dd.data[i][j] = NaN}

\* the columns whose numeric_analysis holds a NaN statistic
NaNStatistics(analysis) ==
    IF ~analysis.success THEN {}
    ELSE {j \in DOMAIN analysis.column_analysis :
            LET entry == analysis.column_analysis[j]
            IN /\ "numeric_analysis" \in DOMAIN entry
               /\ "std" \in DOMAIN entry.numeric_analysis
               /\ entry.numeric_analysis.std = NaN}

NoNaNStatisticInSuccessfulProfile ==
    Succeeded => NaNStatistics(response.data.analysis) = {}

\* a stage result of the form {success: false, error: ...}
FailedStageResult(result) ==
    /\ "success" \in DOMAIN result /\ "error" \in DOMAIN result
    /\ ~result.success

\* the report check_quality returns when a dimension raised: every score 0
AllZeroErrorReport(report) ==
    /\ report.overall_score = FInt(0)
    /\ \A d \in Range(DimensionOrder) : report[d].score = FInt(0)
    /\ report.recommendations = _get_error_report("").recommendations

\* a success=true body whose extraction result passes validate_extraction_result
SucceededOnValidTable ==
    Succeeded /\ validate_extraction_result(response.data.extraction, "Extraction CSV") = ""

PatternsInSuccessNotFailed ==
    SucceededOnValidTable => ~FailedStageResult(response.data.business_patterns)

\* the keys of response_data
ResponseDataKeys ==
    {"extraction", "analysis", "quality", "business_patterns", "recommendations"}

\* a Python list
IsList(value) == DOMAIN value = 1..Len(value)

\* C28: every ExtractionResponse body of /extract is either success=true with
\* error=null and data holding exactly the keys extraction, analysis, quality,
\* business_patterns, recommendations (a list), or success=false with data={}
\* and a non-empty error text
ResponseHasOneOfTwoShapes ==
    response.kind = "body" =>
        \/ /\ response.success
           /\ response.error = "null"
           /\ DOMAIN response.data = ResponseDataKeys
           /\ IsList(response.data.recommendations)
        \/ /\ ~response.success
           /\ DOMAIN response.data = {}
           /\ response.error \notin {"null", ""}

\* a success body with recommendations, and a failure body
SuccessBodyDelivered ==
    Succeeded /\ Len(response.data.recommendations) > 0

FailureBodyDelivered ==
    response.kind = "body" /\ ~response.success

-----------------------------------------------------------------------------
(* CSVExtractor._handle_missing_values_smart on one typed table *)

MissingRows == 11

\* columns as type conversion leaves them: numbers with and without an
\* identifier keyword in the name ('id' is part of "paid"), texts, a column
\* without any value, and a column that holds one value in eleven rows
MissingColumns ==
    <<[name |-> "price",       cells |-> <<Num(1000), NaN, Num(2550)>>],
      [name |-> "branch code", cells |-> <<Num(100), NaN, Num(300)>>],
      [name |-> "paid",        cells |-> <<NaN, Num(500), Num(700), Num(100)>>],
      [name |-> "city",        cells |-> <<Str("Paris"), None, Str("Lyon")>>],
      [name |-> "ref",         cells |-> <<None>>],
      [name |-> "comment",     cells |-> <<Str("late"), None, None, None, None, None,
                                           None, None, None, None, None>>]>>

MissingTable(pick, n) ==
    DataFrame([k \in DOMAIN pick |-> MissingColumns[pick[k]].name],
              [i \in 1..n |->
                  [k \in DOMAIN pick |-> Cycle(MissingColumns[pick[k]].cells, n)[i]]])

MissingTables ==
    {MissingTable(pick, n) :
        pick \in Picks(1, MaxCols, Len(MissingColumns)) \ {<<>>}, n \in 1..MissingRows}

MissingInit ==
    /\ services = ServiceInstances
    /\ requests = NoRequests
    /\ text_content = <<>>
    /\ csv_params = Unset
    /\ cleaned_df = Unset
    /\ typed_df \in MissingTables
    /\ numeric_series = <<>>
    /\ outlier_index = Unset
    /\ handled_df = Unset
    /\ pc = "typed"
    /\ file = Unset
    /\ fault = NoFault
    /\ clock = DaysFromCivil(2026, 11, 2)
    /\ response = NoResponse
    /\ invoked = <<>>
    /\ extraction_result = Unset
    /\ dataframe_data = Unset
    /\ metadata = Unset
    /\ analysis_result = Unset
    /\ business_patterns = Unset
    /\ quality_result = Unset
    /\ recommendations = <<>>
    /\ stage_log = <<>>
    /\ quality_report = Unset
    /\ overall_score = FInt(0)
    /\ detected_domain = Unset

\* extractor.py line 79
HandleMissingValuesSmart ==
    /\ pc = "typed"
    /\ handled_df' = _handle_missing_values_smart(typed_df)
    /\ pc' = "handled"
    /\ UNCHANGED <<file, response, extraction_result, invoked, dataframe_data,
                   metadata, analysis_result, business_patterns, quality_result,
                   recommendations, stage_log, quality_report, overall_score,
                   clock, fault, detected_domain, services, requests,
                   text_content, csv_params, cleaned_df, typed_df,
                   numeric_series, outlier_index>>

MissingNext == HandleMissingValuesSmart

SpecMissing == MissingInit /\ [][MissingNext]_vars

NumericDtypes == {"float64", "int64"}

\* the columns of the typed table of numeric dtype, and those more than 90%
\* missing
NumericColumns == {j \in ColIdx(typed_df) : typed_df.dtype[j] \in NumericDtypes}
MostlyMissingColumns ==
    {j \in ColIdx(typed_df) : 10 * NullCount(typed_df.col[j]) > 9 * len(typed_df)}

ColumnUnchanged(j) ==
    /\ handled_df.col[j] = typed_df.col[j]
    /\ handled_df.dtype[j] = typed_df.dtype[j]

\* C29: missing-value handling leaves every column of numeric dtype, whatever
\* its name, cell for cell as it was and numeric; it leaves every column more
\* than 90% missing unchanged; and it modifies no non-missing cell
NumericColumnsUntouched ==
    pc = "handled" =>
        /\ \A j \in NumericColumns : ColumnUnchanged(j)
        /\ \A j \in MostlyMissingColumns : ColumnUnchanged(j)
        /\ \A j \in ColIdx(typed_df) : \A i \in RowIdx(typed_df) :
              notnull(typed_df.col[j][i]) => handled_df.col[j][i] = typed_df.col[j][i]

\* the parts of C29 that concern the sparse columns and the present cells
SparseColumnsAndPresentCellsUntouched ==
    pc = "handled" =>
        /\ \A j \in MostlyMissingColumns : ColumnUnchanged(j)
        /\ \A j \in ColIdx(typed_df) : \A i \in RowIdx(typed_df) :
              notnull(typed_df.col[j][i]) => handled_df.col[j][i] = typed_df.col[j][i]

\* the numeric columns whose name holds no identifier keyword stay as they were
PlainNumericColumnsUntouched ==
    pc = "handled" =>
        \A j \in NumericColumns :
            ~ContainsAny(identifier_keywords, Lower(typed_df.columns[j]))
                => ColumnUnchanged(j)

\* a sparse column with a value, and a numeric column with a missing cell, handled
SparseColumnHandled ==
    /\ pc = "handled"
    /\ \E j \in MostlyMissingColumns : NullCount(typed_df.col[j]) < len(typed_df)

NumericColumnWithGapHandled ==
    /\ pc = "handled"
    /\ \E j \in NumericColumns : NullCount(typed_df.col[j]) > 0

-----------------------------------------------------------------------------
(* CSVExtractor._auto_detect_and_convert_types: the boolean branch *)

\* inference has classified the column of the cleaned table boolean
ClassifiedBoolean ==
    /\ pc = "typed" /\ ~typed_df.raised
    /\ typed_df.value.type_info[1].detected_type = "boolean"

\* the cells of the column before and after conversion
CellsBefore == cleaned_df.col[1]
CellsAfter == typed_df.value.df.col[1]

\* the cell holds a word of the vocabulary _is_boolean_column detects with
InVocabulary(c) == c.t = "str" /\ Lower(c.s) \in bool_values

\* C30: in a column classified boolean every non-missing value of the
\* vocabulary true/false/1/0/yes/no/y/n/oui/non (case-insensitive) becomes a
\* boolean cell, and the column has as many non-missing cells after conversion
\* as before
BooleanConversionKeepsValues ==
    ClassifiedBoolean =>
        /\ \A i \in DOMAIN CellsBefore :
              InVocabulary(CellsBefore[i]) => CellsAfter[i].t = "bool"
        /\ Len(dropna(CellsAfter)) = Len(dropna(CellsBefore))

\* the part of C30 that holds: the values the map of line 293 names become
\* boolean cells
MappedWordsBecomeBoolean ==
    ClassifiedBoolean =>
        \A i \in DOMAIN CellsBefore :
            (CellsBefore[i].t = "str" /\ CellsBefore[i].s \in {"True", "False", "1", "0"})
                => CellsAfter[i].t = "bool"

\* a column of "True" and "1" classified boolean and converted
BooleanColumnConverted ==
    /\ ClassifiedBoolean
    /\ \E i \in DOMAIN CellsAfter : CellsAfter[i] = Bool(TRUE)
====
